---- MODULE Spec2Model ----
(***************************************************************************)
(* State-machine model of the GMSL camera chain driver                     *)
(* (drivers/media/i2c/vision.c): MAX9286 deserializer, MAX96705            *)
(* serializers and AP0202 ISPs on one shared I2C bus.                      *)
(*                                                                         *)
(* The probe (vision_probe -> vision_initialize -> camera_config) and the  *)
(* streaming control (vision_s_stream) are modelled one bus transaction    *)
(* per step.  Every bus transaction either succeeds or fails with a        *)
(* negative errno chosen by the simulated bus.                             *)
(*                                                                         *)
(* The serializer and ISP subdevice drivers (max96705.c, ap0202at.c,       *)
(* sg1_ar0231_ap0202.c) bind to devices of their own and share no state    *)
(* with vision.c: a behaviour is about a device bound to one of the four   *)
(* drivers (variable driver), and each of their handlers is one step.  A   *)
(* failed probe may be called again; the chips keep their registers in     *)
(* between.                                                                *)
(***************************************************************************)
EXTENDS Integers, Sequences, FiniteSets, TLC

\* ------------------------------------------------------------------ bounds
\* Largest number of camera channels a device tree of the model declares,
\* the over-long chain (OverlongChain) aside.
MaxChannels == 2
\* Largest number of bus transfers the simulated bus lets fail in one run.
MaxBusFaults == 1

\* ------------------------------------------------------- program constants
MAX96705_I2C_ADDRESS == \h40
\* default format of the max96705 and of the vision subdevice
MAX96705_WIDTH == 1280
MAX96705_HEIGHT == 800
MAX96705_FORMAT == "UYVY8_1X16"
\* default format of the ap0202at and of the sg1 subdevice
AP0202AT_WIDTH == 1280
AP0202AT_HEIGHT == 800
AP0202AT_FORMAT == "UYVY8_1X16"
SG1_WIDTH == 1280
SG1_HEIGHT == 800
SG1_FORMAT == "UYVY8_1X16"
AP0202_I2C_ADDRESS == \h5d
MAX9286_MSTLINKSEL_AUTO == 128
MAX9286_VCTYPE == 16
MAX9286_CSIOUTEN == 8
MAX9286_0X15_RESV == 3
MAX9286_VIDEO_DETECT_MASK == \h0f
MAX9286_NUM_GMSL == 4
SOURCE_MASK == 1
\* MAX96705 registers (max96705.c)
MAX96705_SERADDR == 0
MAX96705_MAIN_CONTROL == 4
MAX96705_MAIN_CONTROL_FWDCCEN == 1
MAX96705_MAIN_CONTROL_REVCCEN == 2
MAX96705_MAIN_CONTROL_CLINKEN == 64
MAX96705_MAIN_CONTROL_SEREN == 128
MAX96705_CONFIG == 7
MAX96705_CONFIG_HVEN == 4
MAX96705_CONFIG_DBL == 128
MAX96705_CROSSBAR(x) == 32 + x
MAX96705_PAD_SOURCE == 1
\* media bus codes the format handlers name
MEDIA_BUS_FMT_UYVY8_1X16 == "UYVY8_1X16"
MEDIA_BUS_FMT_RBG888_1X24 == "RBG888_1X24"
MEDIA_BUS_FMT_Y8_1X8 == "Y8_1X8"
\* bus types and flags of struct v4l2_mbus_config; a flag word is the set of
\* its flags
V4L2_MBUS_PARALLEL == "PARALLEL"
V4L2_MBUS_GMSL == "GMSL"
V4L2_MBUS_DATA_LSB == "DATA_LSB"
V4L2_MBUS_VSYNC_ACTIVE_HIGH == "VSYNC_ACTIVE_HIGH"
V4L2_MBUS_VSYNC_ACTIVE_LOW == "VSYNC_ACTIVE_LOW"
V4L2_MBUS_GMSL_BWS_24B == "GMSL_BWS_24B"
V4L2_MBUS_GMSL_VSYNC_ACTIVE_HIGH == "GMSL_VSYNC_ACTIVE_HIGH"
V4L2_MBUS_GMSL_VSYNC_ACTIVE_LOW == "GMSL_VSYNC_ACTIVE_LOW"
\* errno values returned by the driver itself
ENOENT == 2
EIO == 5
ENXIO == 6
ENODEV == 19
EINVAL == 22
ENOIOCTLCMD == 515
\* loop bounds of the three polls
\* (a poll of 0x49 that runs one iteration too many)
VideoDetectPollsOffByOne == 10 + 1
VideoDetectPolls == 10
LinkLockPolls == 10
\* (a poll of 0x31 that runs one iteration too many)
FsyncPollsOffByOne == 36 + 1
FsyncPolls == 36

\* bit n of the two's-complement integer x (x may be a negative errno)
Bit(x, n) == (x \div (2 ^ n)) % 2

MAX9286_LINKEN(n) == 2 ^ n
MAX9286_FWDCCEN(n) == 2 ^ (n + 4)
MAX9286_REVCCEN(n) == 2 ^ n
\* (ret & MAX9286_LOCKED), BIT(7)
MAX9286_LOCKED(x) == Bit(x, 7) = 1
\* (ret & MAX9286_FSYNC_LOCKED), BIT(6)
MAX9286_FSYNC_LOCKED(x) == Bit(x, 6) = 1

\* value written to 0x15 by vision_s_stream(1): 0x80 | VCTYPE | CSIOUTEN | RESV
CsiEnabledPattern == 128 + MAX9286_VCTYPE + MAX9286_CSIOUTEN + MAX9286_0X15_RESV
\* value written to 0x15 by vision_s_stream(0): VCTYPE | RESV
CsiDisabledPattern == MAX9286_VCTYPE + MAX9286_0X15_RESV

\* ------------------------------------------------------------ simulated bus
\* errno values a failed transfer returns (i2c_smbus_* / i2c_master_send):
\* -EIO (bit 6 of the two's-complement value set) and -EREMOTEIO (bit 6 clear)
BusErrnos == {-5, -121}
\* values the status registers can show
Status49 == {\h00, \h01, \h03}
Status27 == {\h00, \h80}
Status31 == {\h00, \h40}

\* chain description of the device tree: "sensor-reg" / "isp-reg"
sensor_addrs == <<\h41, \h42, \h43, \h44>>
isp_addrs == <<\h51, \h52, \h53, \h54>>

\* "reg" property of the device node of a max96705 / ap0202at device
of_reg == [max96705 |-> \h41, ap0202at |-> \h5d]

\* the four drivers; a run is about a device bound to one of them
Drivers == {"vision", "max96705", "ap0202at", "sg1"}

\* ------------------------------------------------- formats and bus queries
\* frame sizes a caller of set_fmt asks for
FrameSizes == { [width |-> 1280, height |-> 800], [width |-> 640, height |-> 480] }
\* media bus codes a caller of set_fmt asks for: the three the handlers name
\* and one they do not
Codes == { MEDIA_BUS_FMT_UYVY8_1X16, MEDIA_BUS_FMT_RBG888_1X24,
           MEDIA_BUS_FMT_Y8_1X8, "SBGGR8_1X8" }
\* pad numbers a caller passes
Pads == 0 .. 2
\* struct v4l2_subdev_format a caller passes to set_fmt
Requests ==
    { [pad |-> p, width |-> s.width, height |-> s.height, code |-> c] :
        p \in Pads, s \in FrameSizes, c \in Codes }
\* no set_fmt request is on record
NoReq == [pad |-> 0, width |-> 0, height |-> 0, code |-> "NONE"]
\* a zeroed struct v4l2_mbus_framefmt
NoFormat == [width |-> 0, height |-> 0, code |-> "NONE"]
\* the members of a v4l2_mbus_framefmt the model follows
Format(w, h, c) == [width |-> w, height |-> h, code |-> c]
\* a zeroed struct v4l2_mbus_config
NoConfig == [type |-> "NONE", flags |-> {}]
\* no get_mbus_config query is on record
NoQuery == [linked |-> FALSE, ret |-> 0, type |-> "NONE", flags |-> {}]
\* what the sink pad of a max96705 is linked to and how that subdevice
\* answers get_mbus_config: no link, no such operation, an error, or a bus
\* description
RemoteAnswers ==
    { [linked |-> FALSE, ret |-> 0, type |-> "NONE", flags |-> {}],
      [linked |-> TRUE, ret |-> -ENOIOCTLCMD, type |-> "NONE", flags |-> {}],
      [linked |-> TRUE, ret |-> -EINVAL, type |-> "NONE", flags |-> {}],
      [linked |-> TRUE, ret |-> 0, type |-> "CSI2", flags |-> {}] }
    \cup
    { [linked |-> TRUE, ret |-> 0, type |-> V4L2_MBUS_PARALLEL, flags |-> f] :
        f \in SUBSET { V4L2_MBUS_DATA_LSB, V4L2_MBUS_VSYNC_ACTIVE_HIGH,
                       V4L2_MBUS_VSYNC_ACTIVE_LOW } }
\* the crossbar registers the driver writes, and their power-on contents
CrossbarInputs == 0 .. 23
CrossbarIdentity == [k \in CrossbarInputs |-> k]

Channels == 0 .. (MAX9286_NUM_GMSL - 1)
NULL == 0

VARIABLES
    pc,           \* position of the driver: which step runs next
    ret,          \* return value of the call that returned last
    lastCall,     \* which entry point returned last
    registered,   \* the subdev is registered: s_stream can be called
    dtSensors,    \* number of "sensor-reg" elements in the device tree
    dtIsps,       \* number of "isp-reg" elements in the device tree
    num_sensors,  \* dev->num_sensors
    num_isps,     \* dev->num_isps
    max96705,     \* dev->max96705[i]->addr, NULL when no client exists
    ap0202,       \* dev->ap0202[i]->addr, NULL when no client exists
    chan,         \* loop variable i of camera_config
    idx,          \* index of the next step in the running sequence
    desRegs,      \* register file of the MAX9286
    serChip,      \* bus address each MAX96705 chip answers at
    chanSteps,    \* bring-up transactions that succeeded, per channel
    log,          \* bus transactions of the probe that runs or failed last, in order
    enable,       \* argument of the running vision_s_stream
    i,            \* loop counter of the running poll
    sync,         \* local variable sync of vision_s_stream
    obs,          \* status observations of the running/last s_stream, in order
    polled,       \* status register the running/last s_stream polled last, 0 if none
    polls,        \* reads of that register issued by the running/last s_stream
    readErr,      \* registers whose read failed in the running/last s_stream
    wrote15,      \* writes of 0x15 issued by the running/last s_stream: [val, ok]
    pre15,        \* register 0x15 when the running/last s_stream was called
    retried,      \* a status read was issued after a failed read in the same call
    everEnabled,  \* the enabled pattern was written to 0x15 at some time
    initRet,      \* return value of vision_initialize, 1 while it has not returned
    faults,       \* bus transfers that have failed so far
    driver,       \* the driver bound to the device the run is about
    preMoved,     \* a serializer was off its factory address when the probe began
    preBusError,  \* preMoved, and the probe before failed on a transfer a chip could answer
    moves,        \* times the address of each client handle has changed
    detect,       \* value of the last read of 0x49 by the running/last s_stream
    enabled,      \* dev->enabled of the max96705 / ap0202at device
    xfers,        \* bus transfers of the last max96705 / ap0202at / sg1 handler
    mf,           \* dev->mf of the max96705 / ap0202at / sg1 device
    fmtReq,       \* format a set_fmt was called with, while only get_fmt followed
    fmtRet,       \* the caller's format after the set_fmt / get_fmt that ran last
    remote,       \* answer of the remote subdevice in the last get_mbus_config
    config,       \* the caller's v4l2_mbus_config after the last get_mbus_config
    crossbar,     \* crossbar registers of the MAX96705 chip
    released,     \* times remove has released each client handle
    mainCtl,      \* value the max96705 driver wrote last to MAIN_CONTROL, 0 if none
    thr           \* the two concurrent max96705_s_stream calls: position, argument

vars == <<pc, ret, lastCall, registered, dtSensors, dtIsps, num_sensors, num_isps,
          max96705, ap0202, chan, idx, desRegs, serChip, chanSteps, log,
          enable, i, sync, obs, polled, polls, readErr, wrote15, pre15,
          retried, everEnabled, initRet, faults, driver, preMoved, preBusError,
          moves, detect, enabled, xfers, mf, fmtReq, fmtRet, remote, config,
          crossbar, released, mainCtl, thr>>

\* state of the probe besides pc, ret, idx, desRegs
probeVars == <<dtSensors, dtIsps, num_sensors, num_isps, max96705,
               ap0202, chan, serChip, chanSteps, log, initRet, driver,
               preMoved, preBusError, moves, released>>
\* state of vision_s_stream besides pc, ret, desRegs
streamVars == <<enable, i, sync, obs, polled, polls, readErr, wrote15, pre15,
                retried, everEnabled, detect>>
\* state of the max96705 / ap0202at device besides its client handle
sdVars == <<enabled, xfers, mainCtl, thr>>
\* stored format, crossbar and what the format and bus handlers exchanged
fmtVars == <<mf, fmtReq, fmtRet, remote, config, crossbar>>

\* registers of the MAX9286 the driver writes
DesRegSet == {\h00, \h01, \h0a, \h0b, \h0c, \h12, \h15, \h1c, \h34, \h63, \h64, \h69}

\* ------------------------------------------------------- register sequences
\* link_order[0]
link_order0 == 192 + 32 + 4 + 0

\* max9286_configure: register, value, and whether the result is checked
max9286_configure ==
    << [reg |-> \h34, val |-> \hb6, checked |-> TRUE],
       [reg |-> \h15, val |-> \h03, checked |-> TRUE],
       [reg |-> \h0b, val |-> link_order0, checked |-> FALSE],
       [reg |-> \h12, val |-> \hf3, checked |-> TRUE],
       [reg |-> \h69, val |-> \h0e, checked |-> FALSE],
       [reg |-> \h01, val |-> \h22, checked |-> FALSE],
       [reg |-> \h63, val |-> \h00, checked |-> TRUE],
       [reg |-> \h64, val |-> \h00, checked |-> TRUE],
       [reg |-> \h1c, val |-> \hf4, checked |-> TRUE] >>

\* max96705_configure(dev, index)
max96705_configure ==
    << [dev |-> "ser", reg |-> \h04, val |-> \h47],
       [dev |-> "ser", reg |-> \h07, val |-> \h84],
       [dev |-> "ser", reg |-> \h0e, val |-> \h02] >>

\* (a reassignment that writes the new address without the shift)
max96705_configure_address_unshifted(addr) ==
    << [dev |-> "ser", reg |-> \h00, val |-> addr % 256] >>

\* max96705_configure_address(dev, addr, index): write of addr << 1 (u8)
max96705_configure_address(addr) ==
    << [dev |-> "ser", reg |-> \h00, val |-> (addr * 2) % 256] >>

\* (an apply-configuration pair issued command register first)
ap0202_apply_swapped ==
    << [dev |-> "isp", reg |-> \h0040, val |-> \h8100],
       [dev |-> "isp", reg |-> \hfc00, val |-> \h2800] >>

\* the last two writes of ap0202_configure: control 0xfc00, then command 0x0040
ap0202_apply ==
    << [dev |-> "isp", reg |-> \hfc00, val |-> \h2800],
       [dev |-> "isp", reg |-> \h0040, val |-> \h8100] >>

\* ap0202_configure(dev, addr, index): addr is not used
ap0202_configure ==
    << [dev |-> "isp", reg |-> \hc804, val |-> \h40],
       [dev |-> "isp", reg |-> \hc806, val |-> \h4],
       [dev |-> "isp", reg |-> \hc808, val |-> \h477],
       [dev |-> "isp", reg |-> \hc80a, val |-> \h783],
       [dev |-> "isp", reg |-> \hc814, val |-> \h4b0],
       [dev |-> "isp", reg |-> \hc816, val |-> \h960],
       [dev |-> "isp", reg |-> \hc8a0, val |-> \h0],
       [dev |-> "isp", reg |-> \hc8a2, val |-> \h0],
       [dev |-> "isp", reg |-> \hc8a4, val |-> \h780],
       [dev |-> "isp", reg |-> \hc8a6, val |-> \h438],
       [dev |-> "isp", reg |-> \hcae4, val |-> \h500],
       [dev |-> "isp", reg |-> \hcae6, val |-> \h2d0] >>
    \o ap0202_apply

\* (a control-path enable that keeps the paths of the earlier channels open)
ControlChannelEnableCumulative(c) ==
    IF c = 0 THEN MAX9286_FWDCCEN(0) + MAX9286_REVCCEN(0)
    ELSE MAX9286_FWDCCEN(c) + MAX9286_REVCCEN(c)
         + MAX9286_FWDCCEN(c - 1) + MAX9286_REVCCEN(c - 1)

\* value camera_config writes to 0x0a for channel c
ControlChannelEnable(c) == MAX9286_FWDCCEN(c) + MAX9286_REVCCEN(c)

\* (a loop body that configures the ISP before it moves the serializer)
camera_config_isp_first(c) ==
    << [dev |-> "des", reg |-> \h0a, val |-> ControlChannelEnable(c)] >>
    \o max96705_configure
    \o ap0202_configure
    \o max96705_configure_address(sensor_addrs[c + 1])
    \o << [dev |-> "ser", reg |-> \h04, val |-> \h87] >>
    \o << [dev |-> "des", reg |-> \h00,
           val |-> MAX9286_MSTLINKSEL_AUTO + MAX9286_LINKEN(c)] >>

\* body of the loop of camera_config for channel c, one transaction per entry
camera_config(c) ==
    << [dev |-> "des", reg |-> \h0a, val |-> ControlChannelEnable(c)] >>
    \o max96705_configure
    \o max96705_configure_address(sensor_addrs[c + 1])
    \o << [dev |-> "ser", reg |-> \h04, val |-> \h87] >>
    \o ap0202_configure
    \o << [dev |-> "des", reg |-> \h00,
           val |-> MAX9286_MSTLINKSEL_AUTO + MAX9286_LINKEN(c)] >>

\* config byte of max9286_configure_i2c(dev, false)
max9286_configure_i2c == 32 + 2 + 12

\* ------------------------------------------------------------- hardware
\* power-on contents of register 0x15 (CSI output may be enabled or not)
PowerOn15 == {\h03, \h0b}

\* forward and reverse control channel of link c enabled in register 0x0a
ControlEnabled(c) ==
    /\ Bit(desRegs[\h0a], c + 4) = 1
    /\ Bit(desRegs[\h0a], c) = 1

\* links whose chip of kind dev answers a transfer addressed to addr
Responders(dev, addr) ==
    { c \in Channels :
        /\ ControlEnabled(c)
        /\ \/ dev = "ser" /\ serChip[c] = addr
           \/ dev = "isp" /\ AP0202_I2C_ADDRESS = addr }

\* errno values the bus may still return for a transfer
Errnos == IF faults < MaxBusFaults THEN BusErrnos ELSE {}

\* outcomes of one bus write: 0 or a negative errno
WriteResults == {0} \cup Errnos

\* the bus has answered a transfer with r
Transfer(r) == faults' = IF r < 0 THEN faults + 1 ELSE faults

\* i2c_smbus_write_byte_data(dev->client, reg, val) returning r
max9286_write(reg, val, r) ==
    desRegs' = IF r = 0 THEN [desRegs EXCEPT ![reg] = val] ELSE desRegs

\* effect on the chips of a write to a serializer at addr returning r:
\* register 0x00 holds the chip's address shifted left by one
max96705_write(addr, reg, val, r) ==
    serChip' = IF r = 0 /\ reg = \h00
               THEN [c \in Channels |->
                        IF c \in Responders("ser", addr) THEN val \div 2
                        ELSE serChip[c]]
               ELSE serChip

\* one entry of the probe's bus log
LogEntry(dev, c, addr, reg, val, r) ==
    [dev |-> dev, ch |-> c, addr |-> addr, reg |-> reg, val |-> val,
     ok |-> (r = 0), cc |-> desRegs[\h0a],
     answer |-> IF dev = "des" THEN {} ELSE Responders(dev, addr)]

\* --------------------------------------------------------------- Init
\* no max96705_s_stream call is running beside another
NoThreads == [t \in {1, 2} |-> [at |-> "none", e |-> 0]]

\* no handle has changed its address
NoMoves == [ser |-> [c \in Channels |-> 0], isp |-> [c \in Channels |-> 0]]

\* vision: the state when vision_probe is entered after power-on.
\* one more "sensor-reg" / "isp-reg" element than struct vision_device has
\* room for in "max96705[4]" and "ap0202[4]"
OverlongChain == MAX9286_NUM_GMSL + 1

\* element counts of_property_count_u32_elems returns in the model
DtCounts == (1 .. MaxChannels) \cup {OverlongChain}

\* max96705, ap0202at, sg1: the state when the probe is entered; the i2c core
\* has created the client at the address of the "reg" property.
Init ==
    /\ driver \in Drivers
    /\ pc = IF driver = "vision" THEN "max9286_configure"
            ELSE IF driver = "max96705" THEN "max96705_probe"
            ELSE IF driver = "ap0202at" THEN "ap0202at_probe"
            ELSE "sg1_probe"
    /\ ret = 0
    /\ lastCall = "none"
    /\ registered = FALSE
    /\ dtSensors \in IF driver = "vision" THEN DtCounts ELSE {1}
    /\ dtIsps \in IF driver = "vision" THEN DtCounts ELSE {1}
    /\ num_sensors = 0
    /\ num_isps = 0
    /\ max96705 = [c \in Channels |->
                      IF driver = "max96705" /\ c = 0 THEN of_reg.max96705
                      ELSE NULL]
    /\ ap0202 = [c \in Channels |->
                    IF driver = "ap0202at" /\ c = 0 THEN of_reg.ap0202at
                    ELSE NULL]
    /\ chan = 0
    /\ idx = 1
    /\ \E p \in IF driver = "vision" THEN PowerOn15 ELSE {\h03} :
          desRegs = [r \in DesRegSet |->
                        IF r = \h0a THEN \hff ELSE IF r = \h15 THEN p ELSE 0]
    /\ serChip = [c \in Channels |-> MAX96705_I2C_ADDRESS]
    /\ chanSteps = [c \in Channels |-> 0]
    /\ log = << >>
    /\ enable = 0
    /\ i = 0
    /\ sync = FALSE
    /\ obs = << >>
    /\ polled = 0
    /\ polls = 0
    /\ readErr = {}
    /\ wrote15 = << >>
    /\ pre15 = 0
    /\ retried = FALSE
    /\ everEnabled = FALSE
    /\ initRet = 1
    /\ faults = 0
    /\ preMoved = FALSE
    /\ preBusError = FALSE
    /\ moves = NoMoves
    /\ detect = 0
    /\ enabled = 0
    /\ xfers = << >>
    /\ mf = NoFormat
    /\ fmtReq = NoReq
    /\ fmtRet = NoFormat
    /\ remote = NoQuery
    /\ config = NoConfig
    /\ crossbar = CrossbarIdentity
    /\ released = NoMoves
    /\ mainCtl = 0
    /\ thr = NoThreads

\* ------------------------------------------------------------- the probe
\* (a write whose result is never looked at)
write_failed_ignored(r) == FALSE

\* "if (ret < 0) return ret;" after a checked write
write_failed(r) == r < 0

\* (a probe that registers the subdev although vision_initialize failed)
ProbeErrorIgnored(r) ==
    /\ pc' = "idle"
    /\ ret' = 0
    /\ lastCall' = "probe"
    /\ registered' = TRUE
    /\ initRet' = r

\* vision_probe: "if (ret < 0) goto error": nothing is registered
ProbeError(r) ==
    /\ pc' = "failed"
    /\ ret' = r
    /\ lastCall' = "probe"
    /\ registered' = FALSE
    /\ initRet' = r

\* max9286_configure, one register write per step
Max9286Configure ==
    /\ pc = "max9286_configure"
    /\ \E r \in WriteResults :
          LET s == max9286_configure[idx] IN
          /\ Transfer(r)
          /\ max9286_write(s.reg, s.val, r)
          /\ log' = Append(log, LogEntry("des", -1, 0, s.reg, s.val, r))
          /\ IF s.checked /\ write_failed(r)
             THEN ProbeError(r) /\ idx' = idx
             ELSE /\ idx' = IF idx = Len(max9286_configure) THEN 1 ELSE idx + 1
                  /\ pc' = IF idx = Len(max9286_configure)
                           THEN "vision_initialize" ELSE pc
                  /\ UNCHANGED <<ret, lastCall, registered, initRet>>
    /\ UNCHANGED <<dtSensors, dtIsps, num_sensors, num_isps, max96705, ap0202,
                   chan, serChip, chanSteps>>
    /\ UNCHANGED <<driver, preMoved, preBusError, moves>>
    /\ UNCHANGED streamVars
    /\ UNCHANGED released
    /\ UNCHANGED sdVars
    /\ UNCHANGED fmtVars

\* vision_initialize: the write of 0x0c after max9286_configure
VisionInitialize ==
    /\ pc = "vision_initialize"
    /\ \E r \in WriteResults :
          /\ Transfer(r)
          /\ max9286_write(\h0c, \h91, r)
          /\ log' = Append(log, LogEntry("des", -1, 0, \h0c, \h91, r))
          /\ IF write_failed(r)
             THEN ProbeError(r)
             ELSE /\ pc' = "camera_config_dt"
                  /\ UNCHANGED <<ret, lastCall, registered, initRet>>
    /\ UNCHANGED <<dtSensors, dtIsps, num_sensors, num_isps, max96705, ap0202,
                   chan, idx, serChip, chanSteps>>
    /\ UNCHANGED <<driver, preMoved, preBusError, moves>>
    /\ UNCHANGED streamVars
    /\ UNCHANGED released
    /\ UNCHANGED sdVars
    /\ UNCHANGED fmtVars

\* camera_config up to the configuration loop: the device-tree counts and the
\* dummy clients; i2c_new_dummy may return NULL for any client.  The counts
\* are not compared with the size of the handle arrays: with more than four
\* elements the loop fills max96705[0 .. 3] and then stores the fifth client
\* at "dev->max96705[4]", past the end of the array.  What the program does
\* after that store is undefined; the model stops there ("out_of_bounds").
CameraConfigDt ==
    /\ pc = "camera_config_dt"
    /\ num_sensors' = dtSensors
    /\ num_isps' = dtIsps
    /\ IF dtSensors # dtIsps
       THEN /\ ProbeError(-ENXIO)
            /\ UNCHANGED <<max96705, ap0202>>
       ELSE IF dtSensors > MAX9286_NUM_GMSL
       THEN \E ks \in 0 .. MAX9286_NUM_GMSL :
               /\ max96705' = [c \in Channels |->
                                 IF c < ks THEN MAX96705_I2C_ADDRESS ELSE NULL]
               /\ UNCHANGED ap0202
               /\ IF ks < MAX9286_NUM_GMSL
                  THEN ProbeError(-ENXIO)
                  ELSE /\ pc' = "out_of_bounds"
                       /\ UNCHANGED <<ret, lastCall, registered, initRet>>
       ELSE \E ks \in 0 .. dtSensors, ki \in 0 .. dtIsps :
               /\ max96705' = [c \in Channels |->
                                 IF c < ks THEN MAX96705_I2C_ADDRESS ELSE NULL]
               /\ ap0202' = [c \in Channels |->
                               IF ks = dtSensors /\ c < ki
                               THEN AP0202_I2C_ADDRESS ELSE NULL]
               /\ IF ks < dtSensors \/ ki < dtIsps
                  THEN ProbeError(-ENXIO)
                  ELSE /\ pc' = "camera_config"
                       /\ UNCHANGED <<ret, lastCall, registered, initRet>>
    /\ UNCHANGED <<dtSensors, dtIsps, chan, idx, desRegs, serChip, chanSteps, log,
                   faults>>
    /\ UNCHANGED <<driver, preMoved, preBusError, moves>>
    /\ UNCHANGED streamVars
    /\ UNCHANGED released
    /\ UNCHANGED sdVars
    /\ UNCHANGED fmtVars

\* (a reassignment that updates the handle whatever the write returned)
configure_address_addr_unchecked(old, addr, r) == addr % 256

\* max96705_configure_address after the write of SERADDR returned r:
\* "if (ret < 0) return ret;  ...->addr = addr;" (u8 addr)
configure_address_addr(old, addr, r) ==
    IF write_failed(r) THEN old ELSE addr % 256

\* address a transfer of the loop of camera_config is sent to
TargetAddr(dev, c) ==
    IF dev = "ser" THEN max96705[c]
    ELSE IF dev = "isp" THEN ap0202[c]
    ELSE 0

\* camera_config: "Configure sensors and ISPs one by one", one transfer per step
CameraConfigLoop ==
    /\ pc = "camera_config"
    /\ LET s == camera_config(chan)[idx]
           a == TargetAddr(s.dev, chan)
       IN
       \E r \in WriteResults \cup BusErrnos :
          \* a transfer nobody answers is not acknowledged
          /\ IF s.dev # "des" /\ Responders(s.dev, a) = {}
             THEN r < 0 /\ UNCHANGED faults
             ELSE r \in WriteResults /\ Transfer(r)
          /\ log' = Append(log, LogEntry(s.dev, chan, a, s.reg, s.val, r))
          /\ IF s.dev = "des"
             THEN max9286_write(s.reg, s.val, r) /\ UNCHANGED serChip
             ELSE IF s.dev = "ser"
             THEN max96705_write(a, s.reg, s.val, r) /\ UNCHANGED desRegs
             ELSE UNCHANGED <<desRegs, serChip>>
          \* max96705_configure_address: dev->max96705[index]->addr = addr
          /\ max96705' = IF s.dev = "ser" /\ s.reg = MAX96705_SERADDR
                         THEN [max96705 EXCEPT ![chan] =
                                  configure_address_addr(@, sensor_addrs[chan + 1], r)]
                         ELSE max96705
          /\ moves' = IF max96705'[chan] # max96705[chan]
                      THEN [moves EXCEPT !.ser[chan] = @ + 1]
                      ELSE moves
          /\ chanSteps' = IF r = 0 THEN [chanSteps EXCEPT ![chan] = idx]
                          ELSE chanSteps
          /\ IF write_failed(r)
             THEN ProbeError(r) /\ UNCHANGED <<chan, idx>>
             ELSE /\ UNCHANGED <<ret, lastCall, registered, initRet>>
                  /\ IF idx < Len(camera_config(chan))
                     THEN idx' = idx + 1 /\ UNCHANGED <<pc, chan>>
                     ELSE /\ idx' = 1
                          /\ chan' = chan + 1
                          /\ pc' = IF chan + 1 < num_sensors
                                   THEN pc ELSE "max9286_configure_i2c"
    /\ UNCHANGED <<dtSensors, dtIsps, num_sensors, num_isps, ap0202>>
    /\ UNCHANGED <<driver, preMoved, preBusError>>
    /\ UNCHANGED streamVars
    /\ UNCHANGED released
    /\ UNCHANGED sdVars
    /\ UNCHANGED fmtVars

\* vision_initialize: max9286_configure_i2c(dev, false), then "return 0"
Max9286ConfigureI2c ==
    /\ pc = "max9286_configure_i2c"
    /\ \E r \in WriteResults :
          /\ Transfer(r)
          /\ max9286_write(\h34, max9286_configure_i2c, r)
          /\ log' = Append(log, LogEntry("des", -1, 0, \h34, max9286_configure_i2c, r))
    /\ initRet' = 0
    /\ pc' = "vision_probe"
    /\ UNCHANGED <<ret, lastCall, registered, dtSensors, dtIsps, num_sensors,
                   num_isps, max96705, ap0202, chan, idx, serChip, chanSteps>>
    /\ UNCHANGED <<driver, preMoved, preBusError, moves>>
    /\ UNCHANGED streamVars
    /\ UNCHANGED released
    /\ UNCHANGED sdVars
    /\ UNCHANGED fmtVars

\* vision_probe after vision_initialize returned 0: the control handler, the
\* media pads and the async registration may each fail; the bus log ends
\* with a probe that succeeded
VisionProbe ==
    /\ pc = "vision_probe"
    /\ \E ok \in BOOLEAN :
          IF ok
          THEN pc' = "idle" /\ ret' = 0 /\ registered' = TRUE /\ log' = << >>
          ELSE pc' = "failed" /\ ret' = -EINVAL /\ registered' = FALSE
               /\ log' = log
    /\ lastCall' = "probe"
    /\ UNCHANGED <<idx, desRegs, faults>>
    /\ UNCHANGED <<dtSensors, dtIsps, num_sensors, num_isps, max96705, ap0202,
                   chan, serChip, chanSteps, initRet, driver, preMoved,
                   preBusError, moves>>
    /\ UNCHANGED streamVars
    /\ UNCHANGED released
    /\ UNCHANGED sdVars
    /\ UNCHANGED fmtVars

\* ------------------------------------------------------ vision_s_stream
\* (ret & MAX9286_VIDEO_DETECT_MASK) == SOURCE_MASK
video_detected(r) == (r % (MAX9286_VIDEO_DETECT_MASK + 1)) = SOURCE_MASK

\* "if (ret < 0) return -EIO;" after a read in max9286_check_video_links
read_failed(r) == r < 0

\* a call of vision_s_stream returns v
SStreamReturn(v) ==
    /\ pc' = "idle"
    /\ ret' = v
    /\ lastCall' = IF enable = 1 THEN "s_stream_on" ELSE "s_stream_off"

\* the framework calls vision_s_stream(sd, 1)
VisionSStreamEnable ==
    /\ pc = "idle"
    /\ registered
    /\ enable' = 1
    /\ pc' = "video_detect"
    /\ i' = 0
    /\ sync' = FALSE
    /\ obs' = << >>
    /\ polled' = 0
    /\ polls' = 0
    /\ readErr' = {}
    /\ wrote15' = << >>
    /\ retried' = FALSE
    /\ detect' = 0
    /\ pre15' = desRegs[\h15]
    /\ fmtReq' = NoReq
    /\ fmtRet' = NoFormat
    /\ UNCHANGED <<ret, lastCall, registered, idx, desRegs, everEnabled, faults>>
    /\ UNCHANGED <<mf, remote, config, crossbar>>
    /\ UNCHANGED probeVars
    /\ UNCHANGED sdVars

\* max9286_check_video_links: one iteration of the poll of register 0x49
CheckVideoDetect ==
    /\ pc = "video_detect"
    /\ \E r \in Status49 \cup Errnos :
          /\ Transfer(r)
          /\ polled' = \h49
          /\ polls' = IF polled = \h49 THEN polls + 1 ELSE 1
          /\ retried' = (retried \/ readErr # {})
          /\ readErr' = IF r < 0 THEN readErr \cup {\h49} ELSE readErr
          /\ detect' = IF r < 0 THEN detect ELSE r
          /\ IF read_failed(r)
             THEN SStreamReturn(-EIO) /\ UNCHANGED <<i, obs>>
             ELSE IF video_detected(r)
             THEN /\ obs' = Append(obs, "video")
                  /\ pc' = "link_lock"
                  /\ i' = 0
                  /\ UNCHANGED <<ret, lastCall>>
             ELSE /\ i' = i + 1
                  /\ obs' = obs
                  \* "if (i == 10) return -EIO;"
                  /\ IF i + 1 >= VideoDetectPolls
                     THEN SStreamReturn(-EIO)
                     ELSE UNCHANGED <<pc, ret, lastCall>>
    /\ UNCHANGED <<registered, idx, desRegs, enable, sync, wrote15,
                   pre15, everEnabled>>
    /\ UNCHANGED probeVars
    /\ UNCHANGED sdVars
    /\ UNCHANGED fmtVars

\* max9286_check_video_links: one iteration of the poll of register 0x27
CheckLinkLock ==
    /\ pc = "link_lock"
    /\ \E r \in Status27 \cup Errnos :
          /\ Transfer(r)
          /\ polled' = \h27
          /\ polls' = IF polled = \h27 THEN polls + 1 ELSE 1
          /\ retried' = (retried \/ readErr # {})
          /\ readErr' = IF r < 0 THEN readErr \cup {\h27} ELSE readErr
          /\ IF read_failed(r)
             THEN SStreamReturn(-EIO) /\ UNCHANGED <<i, obs>>
             ELSE IF MAX9286_LOCKED(r)
             THEN /\ obs' = Append(obs, "lock")
                  /\ pc' = "fsync"
                  /\ i' = 0
                  /\ UNCHANGED <<ret, lastCall>>
             ELSE /\ i' = i + 1
                  /\ obs' = obs
                  /\ IF i + 1 >= LinkLockPolls
                     THEN SStreamReturn(-EIO)
                     ELSE UNCHANGED <<pc, ret, lastCall>>
    /\ UNCHANGED <<registered, idx, desRegs, enable, sync, wrote15,
                   pre15, everEnabled, detect>>
    /\ UNCHANGED probeVars
    /\ UNCHANGED sdVars
    /\ UNCHANGED fmtVars

\* vision_s_stream: one iteration of the poll of register 0x31; the value
\* max9286_read returns, an errno included, is masked with FSYNC_LOCKED
FsyncPoll ==
    /\ pc = "fsync"
    /\ \E r \in Status31 \cup Errnos :
          /\ Transfer(r)
          /\ polled' = \h31
          /\ polls' = IF polled = \h31 THEN polls + 1 ELSE 1
          /\ retried' = (retried \/ readErr # {})
          /\ readErr' = IF r < 0 THEN readErr \cup {\h31} ELSE readErr
          /\ IF MAX9286_FSYNC_LOCKED(r)
             THEN /\ sync' = TRUE
                  /\ obs' = IF r >= 0 THEN Append(obs, "fsync") ELSE obs
                  /\ pc' = "csi_enable"
                  /\ UNCHANGED <<i, ret, lastCall>>
             ELSE /\ i' = i + 1
                  /\ UNCHANGED <<sync, obs>>
                  \* "if (!sync) return -EINVAL;"
                  /\ IF i + 1 >= FsyncPolls
                     THEN SStreamReturn(-EINVAL)
                     ELSE UNCHANGED <<pc, ret, lastCall>>
    /\ UNCHANGED <<registered, idx, desRegs, enable, wrote15,
                   pre15, everEnabled, detect>>
    /\ UNCHANGED probeVars
    /\ UNCHANGED sdVars
    /\ UNCHANGED fmtVars

\* (a vision_s_stream that returns the result of its write of 0x15)
s_stream_result_checked(r) == r

\* vision_s_stream after the write of 0x15 returned r: "return 0;"
s_stream_result(r) == 0

\* vision_s_stream: the write of the enabled pattern, result not checked
CsiEnable ==
    /\ pc = "csi_enable"
    /\ \E r \in WriteResults :
          /\ Transfer(r)
          /\ max9286_write(\h15, CsiEnabledPattern, r)
          /\ wrote15' = Append(wrote15, [val |-> CsiEnabledPattern, ok |-> (r = 0)])
          /\ SStreamReturn(s_stream_result(r))
    /\ everEnabled' = TRUE
    /\ UNCHANGED <<registered, idx, enable, i, sync, obs, polled, polls, readErr,
                   pre15, retried, detect>>
    /\ UNCHANGED probeVars
    /\ UNCHANGED sdVars
    /\ UNCHANGED fmtVars

\* vision_s_stream(sd, 0), also called by vision_shutdown
VisionSStreamDisable ==
    /\ pc = "idle"
    /\ registered
    /\ enable' = 0
    /\ pre15' = desRegs[\h15]
    /\ \E r \in WriteResults :
          /\ Transfer(r)
          /\ max9286_write(\h15, CsiDisabledPattern, r)
          /\ wrote15' = << [val |-> CsiDisabledPattern, ok |-> (r = 0)] >>
          /\ ret' = s_stream_result(r)
    /\ i' = 0
    /\ sync' = FALSE
    /\ obs' = << >>
    /\ polled' = 0
    /\ polls' = 0
    /\ readErr' = {}
    /\ retried' = FALSE
    /\ detect' = 0
    /\ pc' = "idle"
    /\ lastCall' = "s_stream_off"
    /\ fmtReq' = NoReq
    /\ fmtRet' = NoFormat
    /\ UNCHANGED <<registered, idx, everEnabled>>
    /\ UNCHANGED <<mf, remote, config, crossbar>>
    /\ UNCHANGED probeVars
    /\ UNCHANGED sdVars

\* the driver core calls vision_probe again after a failed probe: a new
\* vision_device, the chips keep their registers (no power cycle)
VisionProbeAgain ==
    /\ pc = "failed"
    /\ pc' = "max9286_configure"
    /\ num_sensors' = 0
    /\ num_isps' = 0
    /\ max96705' = [c \in Channels |-> NULL]
    /\ ap0202' = [c \in Channels |-> NULL]
    /\ chan' = 0
    /\ idx' = 1
    /\ chanSteps' = [c \in Channels |-> 0]
    /\ log' = << >>
    /\ initRet' = 1
    /\ moves' = NoMoves
    /\ preMoved' = (\E c \in Channels : serChip[c] # MAX96705_I2C_ADDRESS)
    /\ preBusError' = (/\ preMoved'
                       /\ Len(log) > 0
                       /\ ~log[Len(log)].ok
                       /\ ret \in BusErrnos
                       /\ (log[Len(log)].dev = "des" \/ log[Len(log)].answer # {}))
    /\ UNCHANGED <<ret, lastCall, registered, dtSensors, dtIsps, desRegs, serChip,
                   faults, driver>>
    /\ UNCHANGED streamVars
    /\ UNCHANGED released
    /\ UNCHANGED sdVars
    /\ UNCHANGED fmtVars

\* ------------------------------------------------ max96705.c, ap0202at.c
\* max96705_initialize: the writes after "dev->max96705->addr = 0x40"
max96705_initialize(addr) ==
    << [dev |-> "ser", reg |-> MAX96705_MAIN_CONTROL,
        val |-> MAX96705_MAIN_CONTROL_CLINKEN + MAX96705_MAIN_CONTROL_REVCCEN
                + MAX96705_MAIN_CONTROL_FWDCCEN],
       [dev |-> "ser", reg |-> MAX96705_CONFIG,
        val |-> MAX96705_CONFIG_DBL + MAX96705_CONFIG_HVEN] >>
    \o max96705_configure_address(addr)

\* one transfer of a max96705 handler: sent to addr while the chip answers
\* at chip
Xfer(addr, s, ok) ==
    [addr |-> addr, reg |-> s.reg, val |-> s.val, ok |-> ok, chip |-> serChip[0]]

\* max96705_probe: max96705_initialize (n of its writes succeed, the next one
\* returns r), then the pads, the endpoint and the async registration (fin)
Max96705Probe ==
    /\ pc = "max96705_probe"
    /\ LET seq == max96705_initialize(of_reg.max96705)
           last == Len(seq)
       IN
       \E n \in 0 .. last, r \in {0} \cup BusErrnos, fin \in BOOLEAN :
          /\ (n = last) = (r = 0)
          \* a transfer nobody answers is not acknowledged
          /\ IF serChip[0] # MAX96705_I2C_ADDRESS
             THEN n = 0 /\ UNCHANGED faults
             ELSE r \in WriteResults /\ Transfer(r)
          /\ xfers' = [k \in 1 .. (IF n = last THEN last ELSE n + 1) |->
                          Xfer(MAX96705_I2C_ADDRESS, seq[k], k <= n)]
          /\ mainCtl' = IF n >= 1 THEN seq[1].val ELSE mainCtl
          \* the chip takes its new address from the write of SERADDR
          /\ serChip' = IF n = last
                        THEN [serChip EXCEPT ![0] = seq[last].val \div 2]
                        ELSE serChip
          /\ max96705' = [max96705 EXCEPT ![0] =
                            IF n >= last - 1
                            THEN configure_address_addr(MAX96705_I2C_ADDRESS,
                                                        of_reg.max96705, r)
                            ELSE MAX96705_I2C_ADDRESS]
          /\ moves' = [moves EXCEPT !.ser[0] =
                          @ + (IF max96705[0] # MAX96705_I2C_ADDRESS THEN 1 ELSE 0)
                            + (IF max96705'[0] # MAX96705_I2C_ADDRESS THEN 1 ELSE 0)]
          /\ IF write_failed(r)
             THEN pc' = "sd_failed" /\ ret' = r
             ELSE IF fin
             THEN pc' = "sd_idle" /\ ret' = 0
             ELSE pc' = "sd_failed" /\ ret' = -ENOENT
    /\ enabled' = 0
    /\ thr' = thr
    \* "dev->mf.width = MAX96705_WIDTH;" ... of the device that stays bound
    /\ mf' = IF pc' = "sd_idle"
             THEN Format(MAX96705_WIDTH, MAX96705_HEIGHT, MAX96705_FORMAT)
             ELSE NoFormat
    /\ lastCall' = "probe"
    /\ UNCHANGED <<registered, dtSensors, dtIsps, num_sensors, num_isps, ap0202,
                   chan, idx, desRegs, chanSteps, log, initRet, driver, preMoved,
                   preBusError>>
    /\ UNCHANGED <<fmtReq, fmtRet, remote, config, crossbar>>
    /\ UNCHANGED streamVars
    /\ UNCHANGED released

\* a handler other than set_fmt, get_fmt and get_mbus_config is called: the
\* format and the bus description exchanged before are off the record
OtherHandler ==
    /\ fmtReq' = NoReq
    /\ fmtRet' = NoFormat
    /\ remote' = NoQuery
    /\ config' = NoConfig

\* (a max96705_s_stream without the check of the recorded flag)
already_enabled_unchecked(e, en) == FALSE

\* "if (enable == dev->enabled) return 0;"
already_enabled(e, en) == e = en

\* (an s_stream that writes the serializer-enable bit alone)
main_control_seren_only(e) ==
    IF e # 0 THEN MAX96705_MAIN_CONTROL_SEREN ELSE 0

\* value max96705_s_stream(sd, e) writes to MAIN_CONTROL
main_control(e) ==
    MAX96705_MAIN_CONTROL_CLINKEN + MAX96705_MAIN_CONTROL_REVCCEN
    + MAX96705_MAIN_CONTROL_FWDCCEN
    + (IF e # 0 THEN MAX96705_MAIN_CONTROL_SEREN ELSE 0)

\* max96705_s_stream(sd, e), also called by max96705_shutdown with e = 0
Max96705SStream ==
    /\ pc = "sd_idle"
    /\ driver = "max96705"
    /\ \E e \in {0, 1} :
          /\ enable' = e
          /\ IF already_enabled(e, enabled)
             THEN /\ ret' = 0
                  /\ xfers' = << >>
                  /\ UNCHANGED <<enabled, faults, mainCtl>>
             ELSE /\ enabled' = e
                  /\ \E r \in WriteResults :
                        /\ Transfer(r)
                        /\ mainCtl' = IF r = 0 THEN main_control(e) ELSE mainCtl
                        /\ xfers' = << Xfer(max96705[0],
                                            [reg |-> MAX96705_MAIN_CONTROL,
                                             val |-> main_control(e)], r = 0) >>
                        /\ ret' = IF write_failed(r) THEN r ELSE 0
    /\ lastCall' = "max96705_s_stream"
    /\ OtherHandler
    /\ UNCHANGED <<pc, registered, idx, desRegs, i, sync, obs, polled, polls,
                   readErr, wrote15, pre15, retried, everEnabled, detect>>
    /\ UNCHANGED <<mf, crossbar, thr>>
    /\ UNCHANGED probeVars

\* what a step of two concurrent max96705_s_stream calls leaves alone
raceFrame == <<registered, idx, desRegs, enable, i, sync, obs, polled, polls,
               readErr, wrote15, pre15, retried, everEnabled, detect>>

\* two callers enter max96705_s_stream at the same time with different
\* enable values (the function takes no lock): thread 1 with e, thread 2 with
\* the other value, both before "if (enable == dev->enabled)"
SStreamRaceBegin ==
    /\ pc = "sd_idle"
    /\ driver = "max96705"
    /\ pc' = "sd_race"
    /\ \E e \in {0, 1} :
          thr' = [t \in {1, 2} |->
                    [at |-> "check", e |-> IF t = 1 THEN e ELSE 1 - e]]
    /\ xfers' = << >>
    /\ lastCall' = "max96705_s_stream_race"
    /\ OtherHandler
    /\ UNCHANGED <<ret, enabled, mainCtl, faults, mf, crossbar>>
    /\ UNCHANGED raceFrame
    /\ UNCHANGED probeVars

\* the threads of the race after thread t moved to position at
race_threads(t, at) == [thr EXCEPT ![t].at = at]

\* the race is over when both calls have returned
race_done(th) == \A t \in {1, 2} : th[t].at = "done"

\* thread t moves to position at; the device is idle again once both calls
\* have returned
RaceMove(t, at) ==
    LET th == race_threads(t, at) IN
    /\ thr' = IF race_done(th) THEN NoThreads ELSE th
    /\ pc' = IF race_done(th) THEN "sd_idle" ELSE pc

\* one statement of one of the two calls:
\*   check: "if (enable == dev->enabled) return 0;"
\*   set:   "dev->enabled = enable;"
\*   write: "ret = max96705_write(dev, MAX96705_MAIN_CONTROL, control);
\*           if (ret < 0) return ret;  return 0;"
SStreamRaceStep ==
    /\ pc = "sd_race"
    /\ \E t \in {1, 2} :
          LET e == thr[t].e IN
          \/ /\ thr[t].at = "check"
             /\ IF already_enabled(e, enabled)
                THEN /\ RaceMove(t, "done")
                     /\ ret' = 0
                ELSE /\ RaceMove(t, "set")
                     /\ ret' = ret
             /\ UNCHANGED <<enabled, mainCtl, xfers, faults>>
          \/ /\ thr[t].at = "set"
             /\ enabled' = e
             /\ RaceMove(t, "write")
             /\ UNCHANGED <<ret, mainCtl, xfers, faults>>
          \/ /\ thr[t].at = "write"
             /\ \E r \in WriteResults :
                   /\ Transfer(r)
                   /\ mainCtl' = IF r = 0 THEN main_control(e) ELSE mainCtl
                   /\ xfers' = Append(xfers,
                                      Xfer(max96705[0],
                                           [reg |-> MAX96705_MAIN_CONTROL,
                                            val |-> main_control(e)], r = 0))
                   /\ ret' = IF write_failed(r) THEN r ELSE 0
             /\ RaceMove(t, "done")
             /\ UNCHANGED enabled
    /\ UNCHANGED <<lastCall, mf, fmtReq, fmtRet, remote, config, crossbar>>
    /\ UNCHANGED raceFrame
    /\ UNCHANGED probeVars

\* ap0202at_probe: ap0202at_initialize sets the client to the "reg" address
\* without a bus transfer, then the pads, the endpoint and the registration
Ap0202atProbe ==
    /\ pc = "ap0202at_probe"
    /\ ap0202' = [ap0202 EXCEPT ![0] = of_reg.ap0202at]
    /\ moves' = IF ap0202'[0] # ap0202[0]
                THEN [moves EXCEPT !.isp[0] = @ + 1] ELSE moves
    /\ \E fin \in BOOLEAN :
          IF fin THEN pc' = "sd_idle" /\ ret' = 0
          ELSE pc' = "sd_failed" /\ ret' = -ENOENT
    /\ enabled' = 0
    /\ xfers' = << >>
    /\ UNCHANGED <<mainCtl, thr>>
    \* "dev->mf.width = AP0202AT_WIDTH;" ... of the device that stays bound
    /\ mf' = IF pc' = "sd_idle"
             THEN Format(AP0202AT_WIDTH, AP0202AT_HEIGHT, AP0202AT_FORMAT)
             ELSE NoFormat
    /\ lastCall' = "probe"
    /\ UNCHANGED <<registered, dtSensors, dtIsps, num_sensors, num_isps, max96705,
                   chan, idx, desRegs, serChip, chanSteps, log, initRet, faults,
                   driver, preMoved, preBusError>>
    /\ UNCHANGED <<fmtReq, fmtRet, remote, config, crossbar>>
    /\ UNCHANGED streamVars
    /\ UNCHANGED released

\* ap0202at_s_stream(sd, e), also called by ap0202at_shutdown with e = 0
Ap0202atSStream ==
    /\ pc = "sd_idle"
    /\ driver = "ap0202at"
    /\ \E e \in {0, 1} :
          /\ enable' = e
          /\ enabled' = IF already_enabled(e, enabled) THEN enabled ELSE e
    /\ ret' = 0
    /\ xfers' = << >>
    /\ lastCall' = "ap0202at_s_stream"
    /\ mainCtl' = mainCtl
    /\ OtherHandler
    /\ UNCHANGED <<pc, registered, idx, desRegs, faults, i, sync, obs, polled,
                   polls, readErr, wrote15, pre15, retried, everEnabled, detect>>
    /\ UNCHANGED <<mf, crossbar, thr>>
    /\ UNCHANGED probeVars

\* ------------------------------------------------ set_fmt, get_fmt
\* what a format handler leaves alone besides the probe's state
handlerFrame == <<pc, registered, idx, desRegs, enable, i, sync, obs, polled,
                  polls, readErr, wrote15, pre15, retried, everEnabled, detect,
                  enabled, mainCtl, thr>>

\* (a set_fmt that keeps the code it was asked for)
set_fmt_code_kept(code) == code

\* "mf->code = MEDIA_BUS_FMT_UYVY8_1X16;" of sg1_set_fmt; max96705_set_fmt
\* and ap0202at_set_fmt hold the same statement
set_fmt_code(code) == MEDIA_BUS_FMT_UYVY8_1X16

\* the switch of sg1_set_fmt on mf->code; ap0202at_set_fmt holds the same
\* switch and does not use its result
cam_output_format(code) ==
    CASE code = MEDIA_BUS_FMT_UYVY8_1X16 -> 0
      [] code = MEDIA_BUS_FMT_RBG888_1X24 -> 1
      [] code = MEDIA_BUS_FMT_Y8_1X8 -> 2
      [] OTHER -> 2

\* max96705_set_fmt(sd, cfg, format)
Max96705SetFmt ==
    /\ pc = "sd_idle"
    /\ driver = "max96705"
    /\ \E f \in Requests :
          /\ fmtReq' = f
          /\ IF f.pad > 1
             THEN /\ ret' = -EINVAL
                  /\ fmtRet' = Format(f.width, f.height, f.code)
                  /\ UNCHANGED mf
             ELSE /\ mf' = Format(f.width, f.height, set_fmt_code(f.code))
                  /\ fmtRet' = mf'
                  /\ ret' = 0
    /\ xfers' = << >>
    /\ remote' = NoQuery
    /\ config' = NoConfig
    /\ lastCall' = "max96705_set_fmt"
    /\ UNCHANGED <<faults, crossbar>>
    /\ UNCHANGED handlerFrame
    /\ UNCHANGED probeVars

\* max96705_get_fmt(sd, cfg, format)
Max96705GetFmt ==
    /\ pc = "sd_idle"
    /\ driver = "max96705"
    /\ \E p \in Pads :
          IF p > 1
          THEN ret' = -EINVAL /\ fmtRet' = NoFormat
          ELSE ret' = 0 /\ fmtRet' = mf
    /\ xfers' = << >>
    /\ remote' = NoQuery
    /\ config' = NoConfig
    /\ lastCall' = "max96705_get_fmt"
    /\ UNCHANGED <<faults, crossbar, mf, fmtReq>>
    /\ UNCHANGED handlerFrame
    /\ UNCHANGED probeVars

\* ap0202at_set_fmt(sd, cfg, format): no register is written
Ap0202atSetFmt ==
    /\ pc = "sd_idle"
    /\ driver = "ap0202at"
    /\ \E f \in Requests :
          /\ fmtReq' = f
          /\ IF f.pad # 0
             THEN /\ ret' = -EINVAL
                  /\ fmtRet' = Format(f.width, f.height, f.code)
                  /\ UNCHANGED mf
             ELSE /\ mf' = Format(f.width, f.height, set_fmt_code(f.code))
                  /\ fmtRet' = mf'
                  /\ ret' = 0
    /\ xfers' = << >>
    /\ remote' = NoQuery
    /\ config' = NoConfig
    /\ lastCall' = "ap0202at_set_fmt"
    /\ UNCHANGED <<faults, crossbar>>
    /\ UNCHANGED handlerFrame
    /\ UNCHANGED probeVars

\* ap0202at_get_fmt(sd, cfg, format)
Ap0202atGetFmt ==
    /\ pc = "sd_idle"
    /\ driver = "ap0202at"
    /\ \E p \in Pads :
          IF p # 0
          THEN ret' = -EINVAL /\ fmtRet' = NoFormat
          ELSE ret' = 0 /\ fmtRet' = mf
    /\ xfers' = << >>
    /\ remote' = NoQuery
    /\ config' = NoConfig
    /\ lastCall' = "ap0202at_get_fmt"
    /\ UNCHANGED <<faults, crossbar, mf, fmtReq>>
    /\ UNCHANGED handlerFrame
    /\ UNCHANGED probeVars

\* ------------------------------------------------ sg1_ar0231_ap0202.c
\* sg1_probe: sg1_initialize reads "reg" and creates the dummy client of the
\* AP0202 without a bus transfer, then the pads, the default format, the
\* endpoint and the registration; the error path unregisters the dummy
Sg1Probe ==
    /\ pc = "sg1_probe"
    /\ \E e \in {0, -EINVAL, -ENXIO, -ENOENT} :
          /\ ret' = e
          /\ pc' = IF e = 0 THEN "sd_idle" ELSE "sd_failed"
          /\ ap0202' = [ap0202 EXCEPT ![0] =
                          IF e = 0 THEN AP0202_I2C_ADDRESS ELSE NULL]
          /\ mf' = IF e = 0 THEN Format(SG1_WIDTH, SG1_HEIGHT, SG1_FORMAT)
                   ELSE NoFormat
    /\ enabled' = 0
    /\ xfers' = << >>
    /\ UNCHANGED <<mainCtl, thr>>
    /\ lastCall' = "probe"
    /\ UNCHANGED <<registered, dtSensors, dtIsps, num_sensors, num_isps, max96705,
                   chan, idx, desRegs, serChip, chanSteps, log, initRet, faults,
                   driver, preMoved, preBusError, moves>>
    /\ UNCHANGED <<fmtReq, fmtRet, remote, config, crossbar>>
    /\ UNCHANGED streamVars
    /\ UNCHANGED released

\* sg1_s_stream(sd, e), also called by sg1_shutdown with e = 0: "return 0;"
Sg1SStream ==
    /\ pc = "sd_idle"
    /\ driver = "sg1"
    /\ \E e \in {0, 1} : enable' = e
    /\ ret' = 0
    /\ xfers' = << >>
    /\ lastCall' = "sg1_s_stream"
    /\ OtherHandler
    /\ UNCHANGED <<pc, registered, idx, desRegs, faults, i, sync, obs, polled,
                   polls, readErr, wrote15, pre15, retried, everEnabled, detect>>
    /\ UNCHANGED <<enabled, mainCtl, thr, mf, crossbar>>
    /\ UNCHANGED probeVars

\* (a set_fmt that takes every pad number)
pad_rejected_never(p) == FALSE

\* "if (format->pad) return -EINVAL;" of sg1_set_fmt
pad_rejected(p) == p # 0

\* (an apply sequence with the command register first)
ap0202_config_change_swapped ==
    << [dev |-> "isp", reg |-> \h0040, val |-> \h8100],
       [dev |-> "isp", reg |-> \hfc00, val |-> \h2800] >>

\* ap0202_config_change(dev): 0xfc00, then 0x0040
ap0202_config_change ==
    << [dev |-> "isp", reg |-> \hfc00, val |-> \h2800],
       [dev |-> "isp", reg |-> \h0040, val |-> \h8100] >>

\* the writes of sg1_set_fmt for the format f (u8 and u16 values)
sg1_set_fmt_writes(f) ==
    << [dev |-> "isp", reg |-> \hcaea, val |-> cam_output_format(f.code) % 256],
       [dev |-> "isp", reg |-> \hcae4, val |-> f.width % 65536],
       [dev |-> "isp", reg |-> \hcae6, val |-> f.height % 65536] >>
    \o ap0202_config_change

\* one transfer of an sg1 handler to the dummy client of the AP0202
IspXfer(s, ok) ==
    [addr |-> ap0202[0], reg |-> s.reg, val |-> s.val, ok |-> ok,
     chip |-> AP0202_I2C_ADDRESS]

\* sg1_set_fmt(sd, cfg, format): the transfers in F fail; no result is looked
\* at, but ap0202_config_change returns after its first write when it fails
Sg1SetFmt ==
    /\ pc = "sd_idle"
    /\ driver = "sg1"
    /\ \E f \in Requests :
          /\ fmtReq' = f
          /\ IF pad_rejected(f.pad)
             THEN /\ ret' = -EINVAL
                  /\ fmtRet' = Format(f.width, f.height, f.code)
                  /\ xfers' = << >>
                  /\ UNCHANGED <<mf, faults>>
             ELSE LET seq == sg1_set_fmt_writes(f)
                      first == Len(seq) - Len(ap0202_config_change) + 1
                  IN
                  \E F \in SUBSET (1 .. Len(seq)) :
                     LET issued == IF first \in F THEN first ELSE Len(seq)
                     IN
                     /\ Cardinality(F) <= MaxBusFaults - faults
                     /\ \A k \in F : k <= issued
                     /\ faults' = faults + Cardinality(F)
                     /\ xfers' = [k \in 1 .. issued |-> IspXfer(seq[k], k \notin F)]
                     /\ mf' = Format(f.width, f.height, set_fmt_code(f.code))
                     /\ fmtRet' = mf'
                     /\ ret' = 0
    /\ remote' = NoQuery
    /\ config' = NoConfig
    /\ lastCall' = "sg1_set_fmt"
    /\ UNCHANGED crossbar
    /\ UNCHANGED handlerFrame
    /\ UNCHANGED probeVars

\* sg1_get_fmt(sd, cfg, format)
Sg1GetFmt ==
    /\ pc = "sd_idle"
    /\ driver = "sg1"
    /\ \E p \in Pads :
          IF p # 0
          THEN ret' = -EINVAL /\ fmtRet' = NoFormat
          ELSE ret' = 0 /\ fmtRet' = mf
    /\ xfers' = << >>
    /\ remote' = NoQuery
    /\ config' = NoConfig
    /\ lastCall' = "sg1_get_fmt"
    /\ UNCHANGED <<faults, crossbar, mf, fmtReq>>
    /\ UNCHANGED handlerFrame
    /\ UNCHANGED probeVars

\* ------------------------------------------------ vision.c: the pad operations
\* vision_get_fmt(sd, cfg, format) called with pad p and the format f: the
\* return value and the caller's format afterwards
vision_get_fmt(p, f) ==
    IF p # 0
    THEN [ret |-> -EINVAL, mf |-> f]
    ELSE [ret |-> 0,
          mf |-> Format(MAX96705_WIDTH, MAX96705_HEIGHT, MAX96705_FORMAT)]

\* vision_get_fmt reads and writes no state of the device: its calls are
\* followed from the idle states the probe leaves
FormatCallsFollowed ==
    lastCall \in {"probe", "vision_set_fmt", "vision_get_fmt"}

\* vision_subdev_pad_ops.set_fmt, which is vision_get_fmt
VisionSetFmt ==
    /\ pc = "idle"
    /\ registered
    /\ FormatCallsFollowed
    /\ \E f \in Requests :
          LET out == vision_get_fmt(f.pad, Format(f.width, f.height, f.code))
          IN
          /\ fmtReq' = f
          /\ fmtRet' = out.mf
          /\ ret' = out.ret
    /\ lastCall' = "vision_set_fmt"
    /\ UNCHANGED <<pc, registered, idx, desRegs, faults>>
    /\ UNCHANGED <<mf, remote, config, crossbar>>
    /\ UNCHANGED probeVars
    /\ UNCHANGED streamVars
    /\ UNCHANGED released
    /\ UNCHANGED sdVars

\* vision_subdev_pad_ops.get_fmt
VisionGetFmt ==
    /\ pc = "idle"
    /\ registered
    /\ FormatCallsFollowed
    /\ \E p \in Pads :
          LET out == vision_get_fmt(p, NoFormat)
          IN
          /\ fmtRet' = out.mf
          /\ ret' = out.ret
    /\ lastCall' = "vision_get_fmt"
    /\ UNCHANGED <<pc, registered, idx, desRegs, faults>>
    /\ UNCHANGED <<mf, fmtReq, remote, config, crossbar>>
    /\ UNCHANGED probeVars
    /\ UNCHANGED streamVars
    /\ UNCHANGED released
    /\ UNCHANGED sdVars

\* ------------------------------------------------ remove
\* the loops of vision_remove: i2c_unregister_device for every handle below
\* num_sensors / num_isps that is not NULL; sg1_remove does the same for
\* its one handle; no handle is set to NULL afterwards
unregister_handles(rel) ==
    [ser |-> [c \in Channels |->
                rel.ser[c] + (IF c < num_sensors /\ max96705[c] # NULL
                              THEN 1 ELSE 0)],
     isp |-> [c \in Channels |->
                rel.isp[c] + (IF c < num_isps /\ ap0202[c] # NULL
                              THEN 1 ELSE 0)]]

\* what a remove leaves alone besides pc, ret, lastCall, registered, released
removeFrame == <<dtSensors, dtIsps, num_sensors, num_isps, max96705, ap0202,
                 chan, idx, desRegs, serChip, chanSteps, log, initRet, faults,
                 driver, preMoved, preBusError, moves>>

\* vision_remove(client), and the same function called once more on the
\* device it has torn down; what the last stream or format call left to
\* observe is cleared
VisionRemove ==
    /\ pc \in {"idle", "removed"}
    /\ driver = "vision"
    /\ pc' = IF pc = "idle" THEN "removed" ELSE "removed_twice"
    /\ released' = unregister_handles(released)
    /\ registered' = FALSE
    /\ ret' = 0
    /\ lastCall' = "remove"
    /\ enable' = 0 /\ i' = 0 /\ sync' = FALSE /\ obs' = << >>
    /\ polled' = 0 /\ polls' = 0 /\ readErr' = {} /\ wrote15' = << >>
    /\ pre15' = 0 /\ retried' = FALSE /\ detect' = 0
    /\ OtherHandler
    /\ UNCHANGED <<everEnabled, mf, crossbar>>
    /\ UNCHANGED removeFrame
    /\ UNCHANGED sdVars

\* sg1_remove(client), and the same function called once more on the device
\* it has torn down: "if (dev->ap0202) i2c_unregister_device(dev->ap0202);"
Sg1Remove ==
    /\ pc \in {"sd_idle", "sd_removed"}
    /\ driver = "sg1"
    /\ pc' = IF pc = "sd_idle" THEN "sd_removed" ELSE "sd_removed_twice"
    /\ released' = [released EXCEPT !.isp[0] =
                       @ + (IF ap0202[0] # NULL THEN 1 ELSE 0)]
    /\ ret' = 0
    /\ lastCall' = "remove"
    /\ xfers' = << >>
    /\ OtherHandler
    /\ UNCHANGED <<registered, enabled, mainCtl, thr, mf, crossbar>>
    /\ UNCHANGED removeFrame
    /\ UNCHANGED streamVars

\* ------------------------------------------------ max96705_get_mbus_config
\* (a crossbar loop that writes each input to the output of its own number)
crossbar_writes_straight ==
    [k \in 1 .. 16 |->
        IF k <= 8
        THEN [reg |-> MAX96705_CROSSBAR(k - 1), val |-> k - 1]
        ELSE [reg |-> MAX96705_CROSSBAR(16 + (k - 9)), val |-> 16 + (k - 9)]]

\* the two loops of max96705_get_mbus_config: CROSSBAR(i) = 7 - i, then
\* CROSSBAR(16 + i) = 23 - i, for i = 0 .. 7
crossbar_writes ==
    [k \in 1 .. 16 |->
        IF k <= 8
        THEN [reg |-> MAX96705_CROSSBAR(k - 1), val |-> 7 - (k - 1)]
        ELSE [reg |-> MAX96705_CROSSBAR(16 + (k - 9)), val |-> 23 - (k - 9)]]

\* position in crossbar_writes of the write to CROSSBAR(x), 0 if there is none
crossbar_index ==
    [x \in CrossbarInputs |->
        IF \E k \in 1 .. 16 : crossbar_writes[k].reg = MAX96705_CROSSBAR(x)
        THEN CHOOSE k \in 1 .. 16 : crossbar_writes[k].reg = MAX96705_CROSSBAR(x)
        ELSE 0]

\* "mbus_config.flags & V4L2_MBUS_DATA_LSB"
data_lsb(flags) == V4L2_MBUS_DATA_LSB \in flags

\* (a negotiation that inverts the vsync polarity)
vsync_flag_inverted(flags) ==
    IF V4L2_MBUS_VSYNC_ACTIVE_HIGH \in flags
    THEN V4L2_MBUS_GMSL_VSYNC_ACTIVE_LOW
    ELSE V4L2_MBUS_GMSL_VSYNC_ACTIVE_HIGH

\* the polarity flag max96705_get_mbus_config adds for the remote's flags
vsync_flag(flags) ==
    IF V4L2_MBUS_VSYNC_ACTIVE_HIGH \in flags
    THEN V4L2_MBUS_GMSL_VSYNC_ACTIVE_HIGH
    ELSE V4L2_MBUS_GMSL_VSYNC_ACTIVE_LOW

\* (a negotiation that treats a missing operation like any other error)
query_unsupported_never(r) == FALSE

\* (a negotiation that recovers from every error of the query)
query_unsupported_any(r) == TRUE

\* the negation of "if (ret != -ENOIOCTLCMD)"
query_unsupported(r) == r = -ENOIOCTLCMD

\* max96705_get_mbus_config(sd, pad, config): the remote answers q; of the
\* crossbar writes n succeed and the next one returns r
Max96705GetMbusConfig ==
    /\ pc = "sd_idle"
    /\ driver = "max96705"
    /\ \E pad \in Pads :
          IF pad # MAX96705_PAD_SOURCE
          THEN /\ ret' = -EINVAL
               /\ remote' = NoQuery
               /\ config' = NoConfig
               /\ xfers' = << >>
               /\ UNCHANGED <<faults, crossbar>>
          ELSE
          \E q \in RemoteAnswers :
             /\ remote' = q
             /\ IF ~q.linked
                THEN /\ ret' = -ENODEV
                     /\ config' = NoConfig
                     /\ xfers' = << >>
                     /\ UNCHANGED <<faults, crossbar>>
                ELSE IF q.ret # 0
                THEN /\ IF query_unsupported(q.ret)
                        THEN /\ ret' = 0
                             /\ config' =
                                  [type |-> V4L2_MBUS_GMSL,
                                   flags |-> { V4L2_MBUS_GMSL_BWS_24B,
                                               V4L2_MBUS_GMSL_VSYNC_ACTIVE_HIGH }]
                        ELSE /\ ret' = q.ret
                             /\ config' = [type |-> V4L2_MBUS_GMSL,
                                           flags |-> { V4L2_MBUS_GMSL_BWS_24B }]
                     /\ xfers' = << >>
                     /\ UNCHANGED <<faults, crossbar>>
                ELSE IF q.type # V4L2_MBUS_PARALLEL
                THEN /\ ret' = -EINVAL
                     /\ config' = [type |-> V4L2_MBUS_GMSL,
                                   flags |-> { V4L2_MBUS_GMSL_BWS_24B }]
                     /\ xfers' = << >>
                     /\ UNCHANGED <<faults, crossbar>>
                ELSE
                LET seq == IF data_lsb(q.flags) THEN crossbar_writes ELSE << >>
                IN
                \E n \in 0 .. Len(seq), r \in WriteResults :
                   /\ (n = Len(seq)) = (r = 0)
                   /\ Transfer(r)
                   /\ xfers' = [k \in 1 .. (IF r = 0 THEN n ELSE n + 1) |->
                                   Xfer(max96705[0], seq[k], k <= n)]
                   /\ crossbar' =
                        [x \in CrossbarInputs |->
                           IF crossbar_index[x] \in 1 .. n
                           THEN seq[crossbar_index[x]].val
                           ELSE crossbar[x]]
                   /\ ret' = IF r # 0 THEN r ELSE 0
                   /\ config' =
                        [type |-> V4L2_MBUS_GMSL,
                         flags |-> { V4L2_MBUS_GMSL_BWS_24B }
                                   \cup (IF r # 0 THEN {}
                                         ELSE { vsync_flag(q.flags) })]
    /\ fmtReq' = NoReq
    /\ fmtRet' = NoFormat
    /\ lastCall' = "max96705_get_mbus_config"
    /\ UNCHANGED mf
    /\ UNCHANGED handlerFrame
    /\ UNCHANGED probeVars

\* the driver core calls max96705_probe / ap0202at_probe / sg1_probe again
\* after a failed probe: the client keeps its address, the chip keeps its
\* registers
ProbeAgain ==
    /\ pc = "sd_failed"
    /\ pc' = IF driver = "max96705" THEN "max96705_probe"
             ELSE IF driver = "ap0202at" THEN "ap0202at_probe"
             ELSE "sg1_probe"
    /\ preMoved' = (driver = "max96705" /\ serChip[0] # MAX96705_I2C_ADDRESS)
    /\ preBusError' = (/\ preMoved'
                       /\ Len(xfers) > 0
                       /\ ~xfers[Len(xfers)].ok
                       /\ ret \in BusErrnos
                       /\ xfers[Len(xfers)].addr = xfers[Len(xfers)].chip)
    /\ UNCHANGED <<ret, lastCall, registered, dtSensors, dtIsps, num_sensors,
                   num_isps, max96705, ap0202, chan, idx, desRegs, serChip,
                   chanSteps, log, initRet, faults, driver, moves>>
    /\ UNCHANGED streamVars
    /\ UNCHANGED released
    /\ UNCHANGED sdVars
    /\ UNCHANGED fmtVars

Next ==
    \/ VisionProbeAgain
    \/ Max96705Probe
    \/ Max96705SStream
    \/ Ap0202atProbe
    \/ Ap0202atSStream
    \/ Max96705SetFmt
    \/ Max96705GetFmt
    \/ Max96705GetMbusConfig
    \/ Ap0202atSetFmt
    \/ Ap0202atGetFmt
    \/ Sg1Probe
    \/ Sg1SStream
    \/ Sg1Remove
    \/ SStreamRaceBegin
    \/ SStreamRaceStep
    \/ VisionRemove
    \/ Sg1SetFmt
    \/ Sg1GetFmt
    \/ VisionSetFmt
    \/ VisionGetFmt
    \/ ProbeAgain
    \/ Max9286Configure
    \/ VisionInitialize
    \/ CameraConfigDt
    \/ CameraConfigLoop
    \/ Max9286ConfigureI2c
    \/ VisionProbe
    \/ VisionSStreamEnable
    \/ CheckVideoDetect
    \/ CheckLinkLock
    \/ FsyncPoll
    \/ CsiEnable
    \/ VisionSStreamDisable

Spec == Init /\ [][Next]_vars

\* ===================================================================
\* Properties
\* ===================================================================

\* the last call that returned is vision_s_stream(sd, 1)
StreamOnReturned == pc = "idle" /\ lastCall = "s_stream_on"

\* the running/last vision_s_stream issued a write of the enabled pattern
EnabledWriteIssued ==
    \E k \in 1 .. Len(wrote15) : wrote15[k].val = CsiEnabledPattern

\* CSIOUTEN, bit 3 of a value of register 0x15
CsiOutEn(v) == Bit(v, 3) = 1

\* vision_initialize returned 0 and every declared channel finished every
\* transaction of its configuration sequence
BringUpSucceeded ==
    /\ initRet = 0
    /\ \A c \in 0 .. (dtSensors - 1) : chanSteps[c] = Len(camera_config(c))

\* C1: in vision_s_stream(1) the enabled pattern is written to 0x15 only after
\* a read of 0x49 showed video detected, then a read of 0x27 showed link
\* locked, then a read of 0x31 showed frame-sync locked, within that call.
C1_EnableOnlyAfterThreeObservations ==
    EnabledWriteIssued => obs = <<"video", "lock", "fsync">>

\* C2: the enabled pattern is never written to 0x15, and vision_s_stream is
\* never even callable, unless bring-up returned success with every declared
\* channel having completed all its steps; after a failed bring-up nothing
\* is registered.
C2_NoStreamingWithoutBringUp ==
    /\ (everEnabled \/ registered \/ pc \in {"video_detect", "link_lock",
                                             "fsync", "csi_enable"})
          => BringUpSucceeded
    /\ initRet < 0 => (~registered /\ ~everEnabled /\ pc = "failed")

C2_Witness ==
    /\ everEnabled
    /\ desRegs[\h15] = CsiEnabledPattern
    /\ dtSensors >= 2
    /\ BringUpSucceeded

\* C3: during camera_config every transaction addressed to a factory-default
\* address (0x40, 0x5d) is issued while register 0x0a enables the control
\* path of exactly the channel being configured, so at most one chip answers;
\* this holds in particular for each serializer address-register write.
C3_OneListenerAtDefaultAddress ==
    \A k \in 1 .. Len(log) :
        (log[k].addr \in {MAX96705_I2C_ADDRESS, AP0202_I2C_ADDRESS}
         \/ (log[k].dev = "ser" /\ log[k].reg = \h00))
        => /\ log[k].cc = MAX9286_FWDCCEN(log[k].ch) + MAX9286_REVCCEN(log[k].ch)
           /\ Cardinality(log[k].answer) <= 1
           /\ log[k].answer \subseteq {log[k].ch}

C3_Witness ==
    \E k \in 1 .. Len(log) :
        /\ log[k].ch = 1
        /\ log[k].dev = "ser"
        /\ log[k].reg = \h00
        /\ log[k].addr = MAX96705_I2C_ADDRESS
        /\ log[k].ok
        /\ serChip[0] = sensor_addrs[1]
        /\ serChip[1] = sensor_addrs[2]

\* C4: bring-up is sequential in channel order: the channel index never
\* decreases along the bus log, and every transaction of channel c + 1 comes
\* after the successful ISP apply-configuration pair (0xfc00, 0x0040) of
\* channel c.
C4_ChannelsStrictlySequential ==
    \A k \in 1 .. Len(log) :
        log[k].ch >= 1 =>
           /\ log[k - 1].ch \in {log[k].ch - 1, log[k].ch}
           /\ \E j \in 2 .. (k - 1) :
                 /\ log[j].ch = log[k].ch - 1
                 /\ log[j].dev = "isp" /\ log[j].reg = \h0040 /\ log[j].ok
                 /\ log[j - 1].ch = log[k].ch - 1
                 /\ log[j - 1].dev = "isp" /\ log[j - 1].reg = \hfc00
                 /\ log[j - 1].ok

C4_Witness ==
    /\ initRet = 0
    /\ dtSensors >= 2
    /\ \E k \in 1 .. Len(log) : log[k].ch = 1 /\ log[k].dev = "isp"

\* C5: bring-up either returns success with every channel complete, or an
\* error: a failed transaction of a channel's sequence is the last bus
\* transaction of the probe, bring-up then returns that negative errno, and
\* no channel at or past the failure counts as complete.
C5_FirstFailureAborts ==
    /\ initRet = 0 => BringUpSucceeded
    /\ \A k \in 1 .. Len(log) :
          (log[k].ch >= 0 /\ ~log[k].ok) =>
             /\ k = Len(log)
             /\ pc = "failed"
             /\ initRet = ret
             /\ ret \in BusErrnos
             /\ ~registered
             /\ \A c \in Channels :
                   c >= log[k].ch => chanSteps[c] < Len(camera_config(c))

C5_Witness ==
    /\ pc = "failed"
    /\ Len(log) > 0
    /\ log[Len(log)].ch = 1
    /\ log[Len(log)].dev = "isp"
    /\ ~log[Len(log)].ok
    /\ chanSteps[0] = Len(camera_config(0))

\* C6: bring-up returns success only if every register write it issued
\* succeeded, the deserializer writes of max9286_configure and the last
\* write of 0x34 included.
C6_EveryWriteFailureFatal ==
    initRet = 0 => \A k \in 1 .. Len(log) : log[k].ok

\* the running/last vision_s_stream(1) has read register reg n times, every
\* read succeeded, and none of the n reads showed the awaited status
PollsExhausted(reg, n, seen) ==
    /\ enable = 1
    /\ polled = reg
    /\ polls = n
    /\ readErr = {}
    /\ obs = seen
    /\ ~sync

\* C7: from Idle, when video detect or link lock does not show within 10
\* reads the call returns -EIO, when frame-sync lock does not show within 36
\* reads it returns -EINVAL (a different error); in each case no write of
\* 0x15 is issued and CSI output stays disabled.
C7_TimeoutsReported ==
    /\ (\/ PollsExhausted(\h49, 10, << >>)
        \/ PollsExhausted(\h27, 10, <<"video">>))
          => (StreamOnReturned /\ ret = -EIO /\ wrote15 = << >>
              /\ desRegs[\h15] = pre15)
    /\ PollsExhausted(\h31, 36, <<"video", "lock">>)
          => (StreamOnReturned /\ ret = -EINVAL /\ wrote15 = << >>
              /\ desRegs[\h15] = pre15)
    /\ -EINVAL # -EIO

C7_Witness ==
    /\ StreamOnReturned
    /\ PollsExhausted(\h31, 36, <<"video", "lock">>)
    /\ ~CsiOutEn(pre15)
    /\ ~CsiOutEn(desRegs[\h15])
    /\ ret = -EINVAL

\* C8: after every vision_s_stream(1) that returns a timeout error the CSI
\* output-enable bit of register 0x15 is clear, whatever the state before.
C8_TimeoutLeavesIdle ==
    (StreamOnReturned /\ ret < 0 /\ readErr = {}) => ~CsiOutEn(desRegs[\h15])

\* C9: every vision_s_stream(1) stops polling after at most 10 reads of 0x49,
\* 10 reads of 0x27 and 36 reads of 0x31, whatever the bus returns; the three
\* polls run once each, in this order, and a poll that has used up its reads
\* is never left waiting for another one.
C9_PollsBounded ==
    /\ polled = \h49 => (polls <= 10 /\ Len(obs) <= 1)
    /\ polled = \h27 => (polls <= 10 /\ obs \in {<<"video">>, <<"video", "lock">>})
    /\ polled = \h31 => (polls <= 36 /\ Len(obs) >= 2)
    /\ pc = "video_detect" => (polled \in {0, \h49} /\ polls < 10 /\ obs = << >>)
    /\ pc = "link_lock" => (polled \in {\h49, \h27} /\ obs = <<"video">>
                            /\ (polled = \h27 => polls < 10))
    /\ pc = "fsync" => (polled \in {\h27, \h31} /\ obs = <<"video", "lock">>
                        /\ (polled = \h31 => polls < 36))

C9_Witness ==
    /\ StreamOnReturned
    /\ polled = \h31
    /\ polls = 36
    /\ readErr = {\h31}
    /\ ret = -EINVAL

\* C10: a failed read in any of the three polls makes vision_s_stream(1)
\* return an error at once: no further status read, no write of 0x15.
C10_ReadFailurePropagated ==
    (enable = 1 /\ readErr # {}) =>
        (StreamOnReturned /\ ret < 0 /\ ~retried /\ wrote15 = << >>)

\* C11: a vision_s_stream(1) called right after a vision_s_stream(1) that
\* returned 0 is a no-op: while it runs (the previous call's result is still
\* the last one recorded) it reads no status register and writes nothing.
C11_RepeatedEnableIsNoOp ==
    (lastCall = "s_stream_on" /\ ret = 0 /\ pc # "idle")
        => (polls = 0 /\ wrote15 = << >> /\ pc = "video_detect")

\* C12: vision_s_stream(0) always returns 0 and issues exactly one write, of
\* the disabled pattern to register 0x15, and no status read: whether the
\* output was enabled or not, was ever enabled or not, and whether the write
\* succeeds or fails on the bus.
C12_DisableAlwaysWritesOnce ==
    (pc = "idle" /\ lastCall = "s_stream_off") =>
        /\ ret = 0
        /\ Len(wrote15) = 1
        /\ wrote15[1].val = CsiDisabledPattern
        /\ polled = 0 /\ polls = 0 /\ obs = << >> /\ readErr = {}
        /\ (wrote15[1].ok => desRegs[\h15] = CsiDisabledPattern)
        /\ (~wrote15[1].ok => desRegs[\h15] = pre15)

C12_Witness ==
    /\ pc = "idle"
    /\ lastCall = "s_stream_off"
    /\ pre15 = CsiEnabledPattern
    /\ ~wrote15[1].ok
    /\ ret = 0
\* a step that is a vision_s_stream(0) called while the CSI output is disabled
DisableWhileIdleStep ==
    /\ pc = "idle" /\ pc' = "idle"
    /\ lastCall' = "s_stream_off"
    /\ ~CsiOutEn(desRegs[\h15])

\* a step that is a max96705_s_stream / ap0202at_s_stream whose argument
\* equals the recorded dev->enabled
RepeatedRequestStep ==
    /\ pc = "sd_idle"
    /\ lastCall' \in {"max96705_s_stream", "ap0202at_s_stream"}
    /\ enable' = enabled

\* the step of a max96705 / ap0202at handler returns 0, issues no bus
\* transfer and changes neither the device nor the chip
NoOpStep ==
    /\ ret' = 0
    /\ xfers' = << >>
    /\ UNCHANGED <<pc, enabled, max96705, ap0202, serChip, desRegs, faults>>

\* C13 (as stated): a request for the state the device is already in is a
\* no-op: vision_s_stream(0) while the output is disabled, and s_stream(e)
\* with e equal to dev->enabled on a max96705 / ap0202at device, return 0,
\* issue no bus transfer and change no state.
C13_RepeatedRequestIsNoOp ==
    [][ /\ DisableWhileIdleStep =>
              (ret' = 0 /\ wrote15' = << >> /\ polls' = 0
               /\ UNCHANGED <<desRegs, faults, max96705, ap0202, serChip>>)
        /\ RepeatedRequestStep => NoOpStep ]_vars

\* C13 (amended): s_stream(e) with e equal to dev->enabled on a max96705 /
\* ap0202at device returns 0, issues no bus transfer and changes no state;
\* vision_s_stream(0) while the output is disabled returns 0, reads no status
\* register and leaves the output disabled and every handle as it was, but
\* it does issue its one write of the disabled pattern to register 0x15.
C13_RepeatedRequestAmended ==
    [][ /\ DisableWhileIdleStep =>
              (/\ ret' = 0
               /\ polls' = 0 /\ polled' = 0
               /\ Len(wrote15') = 1
               /\ wrote15'[1].val = CsiDisabledPattern
               /\ ~CsiOutEn(desRegs'[\h15])
               /\ \A r \in DesRegSet \ {\h15} : desRegs'[r] = desRegs[r]
               /\ UNCHANGED <<max96705, ap0202, serChip, registered, everEnabled>>)
        /\ RepeatedRequestStep => NoOpStep ]_vars

C13_Witness ==
    /\ lastCall = "max96705_s_stream"
    /\ enable = 1
    /\ enabled = 1
    /\ xfers = << >>
    /\ ret = 0

\* bits of register 0x49 of the links camera_config has configured
ExpectedDetectMask == (2 ^ num_sensors) - 1

\* C14: the poll of 0x49 in vision_s_stream(1) accepts a status exactly when
\* its low four bits equal the mask of the channels bring-up configured; with
\* N channels a status showing video on all N links is accepted.
C14_DetectMaskOfConfiguredChannels ==
    (enable = 1 /\ polled = \h49 /\ \h49 \notin readErr) =>
        ((detect % (MAX9286_VIDEO_DETECT_MASK + 1) = ExpectedDetectMask)
            <=> obs = <<"video">>)

\* C15: after a bring-up that succeeded, for every channel the serializer
\* handle holds sensor_addrs[i] and the ISP handle holds isp_addrs[i] of the
\* device tree (a function of the chain description alone, so two bring-ups
\* from reset chips end with the same addresses).
C15_HandlesHoldFinalAddresses ==
    BringUpSucceeded =>
        \A c \in 0 .. (dtSensors - 1) :
            /\ max96705[c] = sensor_addrs[c + 1]
            /\ ap0202[c] = isp_addrs[c + 1]

\* C16: the address of each serializer and ISP handle changes exactly once,
\* during bring-up: once the probe has succeeded every handle has changed
\* its address once, and this stays so through every later operation.
C16_HandleAddressChangesOnce ==
    /\ (BringUpSucceeded /\ pc # "failed") =>
           \A c \in 0 .. (dtSensors - 1) :
               moves.ser[c] = 1 /\ moves.isp[c] = 1
    /\ (pc = "sd_idle" /\ driver = "max96705") => moves.ser[0] = 1
AddressWrites(c) ==
    { k \in 1 .. Len(log) :
        log[k].ch = c /\ log[k].dev = "ser" /\ log[k].reg = \h00 }

\* C18: when the write of the address register fails, the handle keeps the
\* address it had, the write is not issued again, and the error is returned:
\* it is the last transfer of the probe, which fails with that errno and
\* leaves the channel incomplete.
C18_FailedReassignment ==
    /\ \A k \in 1 .. Len(log) :
          (log[k].dev = "ser" /\ log[k].reg = \h00 /\ ~log[k].ok) =>
             /\ max96705[log[k].ch] = log[k].addr
             /\ moves.ser[log[k].ch] = 0
             /\ AddressWrites(log[k].ch) = {k}
             /\ k = Len(log)
             /\ pc = "failed"
             /\ ret \in BusErrnos
             /\ initRet = ret
             /\ chanSteps[log[k].ch] < Len(camera_config(log[k].ch))
    /\ \A k \in 1 .. Len(xfers) :
          (xfers[k].reg = \h00 /\ ~xfers[k].ok) =>
             /\ max96705[0] = xfers[k].addr
             /\ k = Len(xfers)
             /\ \A j \in 1 .. (k - 1) : xfers[j].reg # \h00
             /\ pc \in {"sd_failed", "max96705_probe"}
             /\ ret \in BusErrnos

C18_Witness ==
    /\ pc = "failed"
    /\ Len(log) > 0
    /\ log[Len(log)].ch = 1
    /\ log[Len(log)].dev = "ser"
    /\ log[Len(log)].reg = \h00
    /\ ~log[Len(log)].ok
    /\ max96705[1] = MAX96705_I2C_ADDRESS
    /\ max96705[0] = sensor_addrs[1]

\* stage of a transfer within the bring-up of one channel
Stage(e) ==
    IF e.dev = "des" /\ e.reg = \h0a THEN 1
    ELSE IF e.dev = "ser" /\ e.reg = \h04 /\ e.val = \h47 THEN 2
    ELSE IF e.dev = "ser" /\ e.reg = \h07 THEN 3
    ELSE IF e.dev = "ser" /\ e.reg = \h0e THEN 4
    ELSE IF e.dev = "ser" /\ e.reg = \h00 THEN 5
    ELSE IF e.dev = "ser" /\ e.reg = \h04 THEN 6
    ELSE IF e.dev = "isp" /\ e.reg \notin {\hfc00, \h0040} THEN 7
    ELSE IF e.dev = "isp" /\ e.reg = \hfc00 THEN 8
    ELSE IF e.dev = "isp" /\ e.reg = \h0040 THEN 9
    ELSE 10

\* C19: the transfers of one channel's bring-up come in a fixed order: the
\* write of 0x0a first, then the serializer writes of 0x04 and 0x07 (and the
\* reset of 0x0e), then the write of the address register 0x00, and only
\* then the ISP writes, of which 0xfc00 followed by 0x0040 are the last two;
\* each transfer follows a successful transfer of the same or the previous
\* stage.
C19_ChannelOrder ==
    \A k \in 1 .. Len(log) :
        log[k].ch >= 0 =>
            IF log[k - 1].ch = log[k].ch
            THEN /\ log[k - 1].ok
                 /\ \/ Stage(log[k]) = Stage(log[k - 1]) + 1
                    \/ Stage(log[k]) = 7 /\ Stage(log[k - 1]) = 7
            ELSE Stage(log[k]) = 1

C19_Witness ==
    \E k \in 1 .. Len(log) :
        /\ log[k].ch = 1
        /\ log[k].dev = "isp"
        /\ log[k].reg = \h0040
        /\ log[k].ok
        /\ log[k - 1].reg = \hfc00
        /\ log[k - 14].dev = "ser"
        /\ log[k - 15].reg = \h00

\* every transfer of the current probe that a chip could answer succeeded
BusDidNotFail ==
    /\ \A k \in 1 .. Len(log) :
          ~log[k].ok => (log[k].dev # "des" /\ log[k].answer = {})
    /\ \A k \in 1 .. Len(xfers) :
          ~xfers[k].ok => xfers[k].addr # xfers[k].chip

\* C20: a probe called again after a probe that failed with a bus error when
\* a serializer had already left its factory address, on a bus that delivers
\* every transfer (no client allocation or registration failure either),
\* returns 0 with every channel complete.
C20_ReinvokedBringUpSucceeds ==
    (/\ preMoved
     /\ preBusError
     /\ lastCall = "probe"
     /\ pc \in {"failed", "idle", "sd_failed", "sd_idle"}
     /\ BusDidNotFail
     /\ ret \notin {-ENXIO, -EINVAL, -ENOENT})
    => (ret = 0 /\ (driver = "vision" => BringUpSucceeded))

\* ------------------------------------------------------------------
\* Formats (max96705.c, ap0202at.c, sg1_ar0231_ap0202.c, vision.c)
\* ------------------------------------------------------------------
\* the codes the set_fmt handlers name
SupportedCodes ==
    { MEDIA_BUS_FMT_UYVY8_1X16, MEDIA_BUS_FMT_RBG888_1X24, MEDIA_BUS_FMT_Y8_1X8 }

\* pad p exists on the subdevice of the driver
ValidPad(p) == IF driver = "max96705" THEN p <= 1 ELSE p = 0

\* a set_fmt of a subdevice that stores its format returned last
SetFmtReturned ==
    lastCall \in {"max96705_set_fmt", "ap0202at_set_fmt", "sg1_set_fmt"}

\* a get_fmt returned last, after a set_fmt on an existing pad and nothing else
GetAfterSet ==
    /\ lastCall \in {"max96705_get_fmt", "ap0202at_get_fmt", "sg1_get_fmt",
                     "vision_get_fmt"}
    /\ ret = 0
    /\ fmtReq # NoReq
    /\ ValidPad(fmtReq.pad)

\* C21: set_fmt never rejects a request for its pixel code: on an existing pad
\* it returns 0 for every requested code, the code it returns is the code it
\* stores and is one of the supported codes, and it is the YUV422 code when
\* the requested code is not supported.
C21_SetFmtNeverRejectsCode ==
    (SetFmtReturned /\ ValidPad(fmtReq.pad)) =>
        /\ ret = 0
        /\ fmtRet.code \in SupportedCodes
        /\ mf.code = fmtRet.code
        /\ (fmtReq.code \notin SupportedCodes =>
                fmtRet.code = MEDIA_BUS_FMT_UYVY8_1X16)

\* an unsupported code was requested from the ISP driver and was coerced
C21_Witness ==
    /\ lastCall = "sg1_set_fmt"
    /\ fmtReq.pad = 0
    /\ fmtReq.code = "SBGGR8_1X8"
    /\ ret = 0
    /\ mf.code = MEDIA_BUS_FMT_UYVY8_1X16

\* C22: round trip: after set_fmt with the format f on a device of the chain,
\* get_fmt returns the width and the height of f and a supported code.
C22_RoundTrip ==
    GetAfterSet =>
        /\ fmtRet.width = fmtReq.width
        /\ fmtRet.height = fmtReq.height
        /\ fmtRet.code \in SupportedCodes

\* registers sg1_set_fmt is to write, in order
FormatWriteOrder == << \hcaea, \hcae4, \hcae6, \hfc00, \h0040 >>

\* sg1_set_fmt returned last and was called on the pad of the subdevice
IspSetFmtReturned == lastCall = "sg1_set_fmt" /\ fmtReq.pad = 0

\* C23: the ISP's set_fmt writes 0xcaea, 0xcae4 and 0xcae6 and then the apply
\* sequence 0xfc00, 0x0040, in that order (the command 0x0040 is left out
\* only when the write of 0xfc00 failed); the apply sequence is the register
\* pair and the values that end the ISP's bring-up.
C23_SetFmtWriteOrder ==
    IspSetFmtReturned =>
        /\ Len(xfers) \in {4, 5}
        /\ \A k \in 1 .. Len(xfers) : xfers[k].reg = FormatWriteOrder[k]
        /\ (Len(xfers) = 5) = xfers[4].ok
        /\ \A k \in 4 .. Len(xfers) :
              /\ xfers[k].reg = ap0202_apply[k - 3].reg
              /\ xfers[k].val = ap0202_apply[k - 3].val
        /\ SubSeq(ap0202_configure, Len(ap0202_configure) - 1,
                  Len(ap0202_configure)) = ap0202_apply

\* all five writes of a set_fmt were issued and acknowledged
C23_Witness ==
    /\ IspSetFmtReturned
    /\ Len(xfers) = 5
    /\ \A k \in 1 .. 5 : xfers[k].ok
    /\ xfers[2].val = 640

\* the code a value of the format-select register 0xcaea stands for
FormatSelectCode(v) ==
    CASE v = 0 -> MEDIA_BUS_FMT_UYVY8_1X16
      [] v = 1 -> MEDIA_BUS_FMT_RBG888_1X24
      [] v = 2 -> MEDIA_BUS_FMT_Y8_1X8
      [] OTHER -> "NONE"

\* C24: after the ISP's set_fmt the code returned and stored is the code of
\* the value written to the format-select register: YUV422 for 0, RGB24 for
\* 1, Y8 for 2.
C24_CodeMatchesFormatSelect ==
    IspSetFmtReturned =>
        /\ fmtRet.code = FormatSelectCode(xfers[1].val)
        /\ mf.code = FormatSelectCode(xfers[1].val)

\* C25: for an unsupported code the value computed for the format-select
\* register is the value a YUV422 request produces.
C25_UnsupportedSelectsYuv ==
    (IspSetFmtReturned /\ fmtReq.code \notin SupportedCodes) =>
        xfers[1].val = cam_output_format(MEDIA_BUS_FMT_UYVY8_1X16)

\* a step of sg1_set_fmt in which a register write failed
FailedFormatWriteStep ==
    /\ lastCall' = "sg1_set_fmt"
    /\ \E k \in 1 .. Len(xfers') : ~xfers'[k].ok

\* C26: a transport failure on a register write of set_fmt is propagated:
\* set_fmt returns an error and the stored format is not updated.
C26_FormatWriteFailurePropagated ==
    [][FailedFormatWriteStep => (ret' < 0 /\ mf' = mf)]_vars

\* ------------------------------------------------------------------
\* Bus negotiation (max96705.c)
\* ------------------------------------------------------------------
\* max96705_get_mbus_config returned last
NegotiationReturned == lastCall = "max96705_get_mbus_config"

\* the remote subdevice described a parallel bus in that call
RemoteDescribedBus ==
    /\ NegotiationReturned
    /\ remote.linked
    /\ remote.ret = 0
    /\ remote.type = V4L2_MBUS_PARALLEL

\* the crossbar input and output of the k-th write of a reversal
ReversalInput(k) == IF k <= 8 THEN k - 1 ELSE k + 7
ReversalOutput(k) == IF k <= 8 THEN 8 - k ELSE 32 - k

\* C27: when the query reports LSB-first data the negotiation writes the
\* crossbar entries 0..7 with 7..0 and then 16..23 with 23..16 (up to the
\* first write that fails) and no entry 8..15; when it reports MSB-first
\* data no crossbar register is written.
C27_CrossbarWrites ==
    RemoteDescribedBus =>
        IF V4L2_MBUS_DATA_LSB \in remote.flags
        THEN /\ Len(xfers) <= 16
             /\ ret = 0 => Len(xfers) = 16
             /\ \A k \in 1 .. Len(xfers) :
                   /\ xfers[k].reg = \h20 + ReversalInput(k)
                   /\ xfers[k].val = ReversalOutput(k)
                   /\ xfers[k].reg \notin (\h20 + 8) .. (\h20 + 15)
        ELSE xfers = << >>

\* an LSB-first negotiation wrote all sixteen entries
C27_Witness ==
    /\ RemoteDescribedBus
    /\ V4L2_MBUS_DATA_LSB \in remote.flags
    /\ ret = 0
    /\ Len(xfers) = 16
    /\ xfers[16].ok

\* the crossbar with the bits of the first and of the third byte reversed
CrossbarReversed ==
    [x \in CrossbarInputs |->
        IF x < 8 THEN 7 - x ELSE IF x >= 16 THEN 39 - x ELSE x]

\* C28: after every successful negotiation the crossbar holds the reversed
\* map if the query of that negotiation reported LSB-first data, and the
\* identity map otherwise, whatever negotiations came before.
C28_CrossbarPerNegotiation ==
    (NegotiationReturned /\ ret = 0) =>
        crossbar = IF RemoteDescribedBus /\ V4L2_MBUS_DATA_LSB \in remote.flags
                   THEN CrossbarReversed
                   ELSE CrossbarIdentity

\* polarity flags of the GMSL bus description
GmslPolarity == { V4L2_MBUS_GMSL_VSYNC_ACTIVE_HIGH, V4L2_MBUS_GMSL_VSYNC_ACTIVE_LOW }

\* C29: a successful negotiation returns the active-high flag if and only if
\* the downstream query reported active-high vsync and the active-low flag
\* otherwise; exactly one polarity flag is set, and the 24-bit bus-width flag
\* is always set.
C29_VsyncMirrored ==
    (NegotiationReturned /\ ret = 0) =>
        /\ V4L2_MBUS_GMSL_BWS_24B \in config.flags
        /\ Cardinality(config.flags \cap GmslPolarity) = 1
        /\ RemoteDescribedBus =>
              (V4L2_MBUS_GMSL_VSYNC_ACTIVE_HIGH \in config.flags)
                  = (V4L2_MBUS_VSYNC_ACTIVE_HIGH \in remote.flags)

\* the downstream reported active-low vsync and the flag was mirrored
C29_Witness ==
    /\ RemoteDescribedBus
    /\ ret = 0
    /\ V4L2_MBUS_VSYNC_ACTIVE_HIGH \notin remote.flags
    /\ config.flags = { V4L2_MBUS_GMSL_BWS_24B, V4L2_MBUS_GMSL_VSYNC_ACTIVE_LOW }

\* the remote subdevice does not implement get_mbus_config
QueryUnsupported ==
    /\ NegotiationReturned
    /\ remote.linked
    /\ remote.ret = -ENOIOCTLCMD

\* C30: when the downstream does not support the query, the negotiation
\* returns success with the active-high flag and writes no crossbar register.
C30_UnsupportedQueryAssumesHigh ==
    QueryUnsupported =>
        /\ ret = 0
        /\ V4L2_MBUS_GMSL_VSYNC_ACTIVE_HIGH \in config.flags
        /\ V4L2_MBUS_GMSL_VSYNC_ACTIVE_LOW \notin config.flags
        /\ xfers = << >>

\* the query was not supported after an earlier negotiation had reversed the
\* crossbar
C30_Witness ==
    /\ QueryUnsupported
    /\ ret = 0
    /\ crossbar = CrossbarReversed

\* the query of the last negotiation failed or described a bus that is not
\* parallel
QueryFailed ==
    /\ NegotiationReturned
    /\ remote.linked
    /\ (remote.ret # 0 \/ remote.type # V4L2_MBUS_PARALLEL)

\* C31: a failure of the downstream query is never fatal: for any error of
\* the query and for a bus type other than parallel the negotiation returns
\* success with the active-high default.
C31_QueryFailureNeverFatal ==
    QueryFailed =>
        /\ ret = 0
        /\ V4L2_MBUS_GMSL_VSYNC_ACTIVE_HIGH \in config.flags

\* C31 (amended): only a query the downstream does not implement is
\* recovered with the active-high default; any other error of the query is
\* returned as it is, a bus type other than parallel is answered with
\* -EINVAL, and neither returns a polarity flag; no crossbar register is
\* written in any of these cases.
C31_OnlyUnsupportedQueryRecovered ==
    QueryFailed =>
        /\ xfers = << >>
        /\ ret = IF remote.ret = -ENOIOCTLCMD THEN 0
                 ELSE IF remote.ret # 0 THEN remote.ret
                 ELSE -EINVAL
        /\ config.flags \cap GmslPolarity =
              IF ret = 0 THEN { V4L2_MBUS_GMSL_VSYNC_ACTIVE_HIGH } ELSE {}

\* the query failed with an error other than "not implemented" and the
\* negotiation returned it
C31_Witness ==
    /\ QueryFailed
    /\ remote.ret = -EINVAL
    /\ ret = -EINVAL
    /\ config.flags = { V4L2_MBUS_GMSL_BWS_24B }

\* names of the set_fmt and of the get_fmt handlers that keep a stored format
SetFmtNames == {"max96705_set_fmt", "ap0202at_set_fmt", "sg1_set_fmt"}
GetFmtNames == {"max96705_get_fmt", "ap0202at_get_fmt", "sg1_get_fmt"}

\* C32: the stored format changes only in a set_fmt on an existing pad:
\* s_stream, get_fmt, the bus negotiation and a set_fmt on a pad that does
\* not exist leave it as it is; a set_fmt on such a pad returns -EINVAL, and
\* that call and every get_fmt issue no bus transfer.
C32_StoredFormatFrame ==
    [][(driver # "vision" /\ pc = "sd_idle") =>
          /\ (mf' # mf) =>
                (lastCall' \in SetFmtNames /\ ValidPad(fmtReq'.pad) /\ ret' = 0)
          /\ (lastCall' \in SetFmtNames /\ ~ValidPad(fmtReq'.pad)) =>
                (ret' = -EINVAL /\ xfers' = << >> /\ faults' = faults)
          /\ (lastCall' \in GetFmtNames) =>
                (xfers' = << >> /\ faults' = faults)]_vars

\* a set_fmt on a pad the ISP subdevice does not have was refused and the
\* default format is still stored
C32_Witness ==
    /\ lastCall = "sg1_set_fmt"
    /\ fmtReq.pad = 1
    /\ fmtReq.width = 640
    /\ ret = -EINVAL
    /\ xfers = << >>
    /\ mf = Format(SG1_WIDTH, SG1_HEIGHT, SG1_FORMAT)

\* ------------------------------------------------------------------
\* Teardown (vision.c, sg1_ar0231_ap0202.c)
\* ------------------------------------------------------------------
\* remove has run on the device at least once
TornDown == pc \in {"removed", "removed_twice", "sd_removed", "sd_removed_twice"}

\* C33: teardown is idempotent: once remove has run, however often, every
\* serializer and ISP handle that was allocated has been released exactly
\* once and no other handle has been released.
C33_TeardownIdempotent ==
    TornDown =>
        \A c \in Channels :
           /\ released.ser[c] = IF max96705[c] # NULL THEN 1 ELSE 0
           /\ released.isp[c] = IF ap0202[c] # NULL THEN 1 ELSE 0

\* ------------------------------------------------------------------
\* Streaming and bring-up of the chain (vision.c)
\* ------------------------------------------------------------------
\* C34: vision_s_stream(sd, 1) returns success only if its write of the
\* enabled pattern to the CSI output-enable register 0x15 succeeded.
C34_StreamOnSuccessMeansWritten ==
    (StreamOnReturned /\ ret = 0) =>
        \E k \in 1 .. Len(wrote15) :
           wrote15[k].val = CsiEnabledPattern /\ wrote15[k].ok

\* C35: after a bring-up of N channels that returned success, register 0x00
\* holds the link-enable bit of every configured channel 0 .. N-1 and
\* register 0x0a enables the forward and the reverse control channel of
\* every configured channel.
C35_AllConfiguredLinksEnabled ==
    BringUpSucceeded =>
        \A c \in 0 .. (num_sensors - 1) :
           /\ Bit(desRegs[\h00], c) = 1
           /\ Bit(desRegs[\h0a], c + 4) = 1
           /\ Bit(desRegs[\h0a], c) = 1

\* C36: handles are stored only at indices 0 .. 3: a chain that declares more
\* than four channels is rejected before any handle is created and before
\* any per-channel transaction is issued, and no store past the arrays
\* happens.
C36_OverlongChainRejected ==
    /\ pc # "out_of_bounds"
    /\ (dtSensors > MAX9286_NUM_GMSL \/ dtIsps > MAX9286_NUM_GMSL) =>
          /\ \A c \in Channels : max96705[c] = NULL /\ ap0202[c] = NULL
          /\ \A k \in 1 .. Len(log) : log[k].ch < 0
          /\ ~registered

\* ------------------------------------------------------------------
\* Streaming of the serializer (max96705.c)
\* ------------------------------------------------------------------
\* a call of max96705_s_stream from the idle device that returns an error
FailedSerializerStreamStep ==
    /\ pc = "sd_idle" /\ driver = "max96705"
    /\ lastCall' = "max96705_s_stream"
    /\ ret' < 0

\* C37: when max96705_s_stream(enable) returns an error because its write
\* of the main-control register failed, the recorded enabled flag keeps the
\* value it had before the call.
C37_FailedStreamKeepsFlag ==
    [][FailedSerializerStreamStep => enabled' = enabled]_vars

\* SEREN, bit 7 of a value of MAIN_CONTROL
SerEn(v) == Bit(v, 7)

\* two concurrent max96705_s_stream calls have both returned and every write
\* they issued succeeded
RaceReturned ==
    /\ pc = "sd_idle"
    /\ lastCall = "max96705_s_stream_race"
    /\ \A k \in 1 .. Len(xfers) : xfers[k].ok

\* C38: when two concurrent max96705_s_stream calls with different enable
\* values have both returned, all writes having succeeded, the SEREN bit
\* last written to the chip equals the recorded enabled flag.
C38_RaceKeepsFlagAndChipAgreed ==
    RaceReturned => SerEn(mainCtl) = enabled

\* every crossbar output is driven by exactly one input
CrossbarPermutation(m) == { m[x] : x \in CrossbarInputs } = CrossbarInputs

\* C39: in every reachable state the 24-entry crossbar of the serializer is
\* a permutation, and is either the identity or the reversed map; this holds
\* also after a negotiation that was aborted part-way.
C39_CrossbarAlwaysPermutation ==
    /\ CrossbarPermutation(crossbar)
    /\ crossbar \in {CrossbarIdentity, CrossbarReversed}

\* CLINKEN, REVCCEN and FWDCCEN of a value of MAIN_CONTROL are all set
ControlBitsSet(v) == Bit(v, 6) = 1 /\ Bit(v, 1) = 1 /\ Bit(v, 0) = 1

\* C40: every value the max96705 driver writes to MAIN_CONTROL has the
\* configuration-link and the forward and reverse control-channel bits set;
\* max96705_initialize and s_stream(0) write it with SEREN clear, s_stream(1)
\* writes the same bits plus SEREN, so SEREN is set only by a streaming
\* enable.
C40_SerEnOnlyByStreamEnable ==
    driver = "max96705" =>
        \A k \in 1 .. Len(xfers) :
           xfers[k].reg = MAX96705_MAIN_CONTROL =>
              /\ ControlBitsSet(xfers[k].val)
              /\ xfers[k].val \in {67, 195}
              /\ lastCall = "probe" => SerEn(xfers[k].val) = 0
              /\ lastCall = "max96705_s_stream" =>
                    SerEn(xfers[k].val) = (IF enable # 0 THEN 1 ELSE 0)
              /\ SerEn(xfers[k].val) = 1 =>
                    lastCall \in {"max96705_s_stream", "max96705_s_stream_race"}

C40_Witness ==
    /\ driver = "max96705"
    /\ lastCall = "max96705_s_stream"
    /\ enable = 1
    /\ Len(xfers) = 1
    /\ xfers[1].reg = MAX96705_MAIN_CONTROL
    /\ xfers[1].val = 195
    /\ xfers[1].ok
    /\ mainCtl = 195

====
